---- MODULE Spec2Model ----
(***************************************************************************)
(* Model of the AHRQ Compendium citation tracker (compendium_tracker.py):  *)
(* the rank-and-prune scorer, the per-source score+prune step of           *)
(* _collect_citations and the merge/dedup step _merge_deduplicate.         *)
(*                                                                         *)
(* Text is modelled at character level: a Python str is a sequence of      *)
(* one-character strings, so that lower(), strip(), split(), substring     *)
(* containment and the regex class \W are computed, not assumed.           *)
(* Scores are kept in units of 0.5 (every configured weight and the        *)
(* threshold are multiples of 0.5, which binary floating point adds        *)
(* exactly), so the float score 2.5 is the integer 5.                      *)
(***************************************************************************)
EXTENDS Integers, Sequences, FiniteSets, TLC

VARIABLES
    pc,             \* position of the run
    keywords,       \* KeywordLoader.keywords: category -> list of terms
    search_results, \* what each collector's search() returned in this run
    all_citations,  \* _collect_citations: source name -> pruned DataFrame
    merged_df,      \* _merge_deduplicate: the merged DataFrame
    row,            \* _score_row: the row being scored
    stage2_score,   \* _score_row: the returned score (units of 0.5)
    score_flags,    \* _score_row: the flags that fired
    prev_score,     \* score of the same row before a canonical term was added
    prev_flags,     \* flags of the same row before a canonical term was added
    yaml_source,    \* what yaml.safe_load makes of keywords.yaml
    skip_fulltext,  \* CompendiumTracker.skip_fulltext
    classifier,     \* UsageClassifier: use_spacy, nlp loaded, regex_patterns
    fulltext,       \* classify_usage: the text being classified
    classification, \* classify_usage: the returned dict
    reports,        \* the artifacts the reporters have written
    raw,            \* a collector's raw data and the locals of its normalize_data
    cache,          \* FulltextFetcher.cache_dir: file name -> file content
    fetched         \* get_fulltext: the row's DOI and URL, and what was returned

\* The state outside the pipeline's frames and the scorer.
restVars == <<yaml_source, skip_fulltext, classifier, fulltext,
              classification, reports, raw, cache, fetched>>

vars == <<pc, keywords, search_results, all_citations, merged_df,
          row, stage2_score, score_flags, prev_score, prev_flags, restVars>>

-----------------------------------------------------------------------------
(* Bounds *)

\* Largest number of records one run collects over all sources together.
MaxRecs == 2

\* Largest number of raw records in one batch handed to normalize_data.
MaxBatch == 2

\* Largest number of get_fulltext calls followed over one cache directory.
MaxCalls == 2

\* Largest number of retained records in a merge of duplicate chains.
MaxChain == 3

-----------------------------------------------------------------------------
(* Python values *)

\* Python None / pandas missing value (NaN) of a text column.
None == <<"<None>">>

\* str(x): the text itself, and "None" for None.
Str(x) == IF x = None THEN <<"N","o","n","e">> ELSE x

UpperChars == <<"A","B","C","D","E","F","G","H","I","J","K","L","M",
                "N","O","P","Q","R","S","T","U","V","W","X","Y","Z">>
LowerChars == <<"a","b","c","d","e","f","g","h","i","j","k","l","m",
                "n","o","p","q","r","s","t","u","v","w","x","y","z">>
DigitChars == {"0","1","2","3","4","5","6","7","8","9"}

IsUpper(c) == \E i \in DOMAIN UpperChars : UpperChars[i] = c
IsLowerChar(c) == \E i \in DOMAIN LowerChars : LowerChars[i] = c

LowerChar(c) ==
    IF IsUpper(c)
    THEN LowerChars[CHOOSE i \in DOMAIN UpperChars : UpperChars[i] = c]
    ELSE c

\* str.lower() (the argument is bound once, then mapped character by
\* character)
Lower(s) ==
    CHOOSE t \in {[i \in DOMAIN v |-> LowerChar(v[i])] : v \in {s}} : TRUE

\* A regex word character (\w): letter, digit or underscore.
IsWordChar(c) == IsUpper(c) \/ IsLowerChar(c) \/ c \in DigitChars \/ c = "_"

IsSpace(c) == c = " "

RECURSIVE LStrip(_)
LStrip(s) == IF s # <<>> /\ IsSpace(Head(s)) THEN LStrip(Tail(s)) ELSE s

RECURSIVE RStrip(_)
RStrip(s) ==
    IF s # <<>> /\ IsSpace(s[Len(s)]) THEN RStrip(SubSeq(s, 1, Len(s) - 1)) ELSE s

\* str.strip()
Strip(s) == RStrip(LStrip(s))

\* t in s (Python substring containment; the empty string is in every string)
Contains(s, t) ==
    \E i \in 1..(Len(s) - Len(t) + 1) : SubSeq(s, i, i + Len(t) - 1) = t

\* len(s.split()): the number of maximal runs of non-space characters
WordCount(s) ==
    Cardinality({i \in DOMAIN s :
                    /\ ~IsSpace(s[i])
                    /\ (i = 1 \/ IsSpace(s[i - 1]))})

\* str.isdigit()
IsDigit(s) == s # <<>> /\ \A i \in DOMAIN s : s[i] \in DigitChars

-----------------------------------------------------------------------------
(* The texts the model draws its inputs from *)

\* "10.1/ABC"
DOI_UPPER == <<"1","0",".","1","/","A","B","C">>
\* "10.1/abc"
DOI_LOWER == <<"1","0",".","1","/","a","b","c">>
\* "A b"
TITLE_SPACED == <<"A"," ","b">>
\* "ab"
TITLE_PLAIN == <<"a","b">>
\* "a_b"
TITLE_UNDERSCORE == <<"a","_","b">>
\* "AHRQ Compendium"
TERM_AHRQ_COMPENDIUM == <<"A","H","R","Q"," ","C","o","m","p","e","n","d","i","u","m">>
\* "Compendium of U.S. Health Systems"
TERM_COMPENDIUM_US == <<"C","o","m","p","e","n","d","i","u","m"," ","o","f"," ","U",".","S","."," ","H","e","a","l","t","h"," ","S","y","s","t","e","m","s">>
\* "Compendium"
TERM_COMPENDIUM == <<"C","o","m","p","e","n","d","i","u","m">>
\* "30674227"
TERM_SEED_PMID == <<"3","0","6","7","4","2","2","7">>
\* "Furukawa"
TERM_SEED_AUTHOR == <<"F","u","r","u","k","a","w","a">>
\* "integration"
TERM_INTEGRATION == <<"i","n","t","e","g","r","a","t","i","o","n">>
\* "health system"
TERM_HEALTH_SYSTEM == <<"h","e","a","l","t","h"," ","s","y","s","t","e","m">>
\* "China"
TERM_CHINA == <<"C","h","i","n","a">>
\* "imidazoline"
TERM_IMIDAZOLINE == <<"i","m","i","d","a","z","o","l","i","n","e">>
\* "nanoparticle"
TERM_NANOPARTICLE == <<"n","a","n","o","p","a","r","t","i","c","l","e">>
\* "delivery"
TERM_DELIVERY == <<"d","e","l","i","v","e","r","y">>
\* "Health Services Research"
JOURNAL_HSR == <<"H","e","a","l","t","h"," ","S","e","r","v","i","c","e","s"," ","R","e","s","e","a","r","c","h">>
\* "health services research"
JOURNAL_HSR_LOWER == <<"h","e","a","l","t","h"," ","s","e","r","v","i","c","e","s"," ","r","e","s","e","a","r","c","h">>
\* "Health Affairs"
JOURNAL_HA == <<"H","e","a","l","t","h"," ","A","f","f","a","i","r","s">>
\* "Hospital integration using the AHRQ Compendium of U.S. Health Systems"
TITLE_SCENARIO_A == <<"H","o","s","p","i","t","a","l"," ","i","n","t","e","g","r","a","t","i","o","n"," ","u","s","i","n","g"," ","t","h","e"," ","A","H","R","Q"," ","C","o","m","p","e","n","d","i","u","m"," ","o","f"," ","U",".","S","."," ","H","e","a","l","t","h"," ","S","y","s","t","e","m","s">>
\* "Imidazoline receptor studies using the AHRQ Compendium"
TITLE_SCENARIO_B == <<"I","m","i","d","a","z","o","l","i","n","e"," ","r","e","c","e","p","t","o","r"," ","s","t","u","d","i","e","s"," ","u","s","i","n","g"," ","t","h","e"," ","A","H","R","Q"," ","C","o","m","p","e","n","d","i","u","m">>
\* "Editorial"
TITLE_EDITORIAL == <<"E","d","i","t","o","r","i","a","l">>
\* "Nanoparticle delivery in China"
TITLE_NEGATIVE == <<"N","a","n","o","p","a","r","t","i","c","l","e"," ","d","e","l","i","v","e","r","y"," ","i","n"," ","C","h","i","n","a">>
\* "We linked the Compendium to ACO files"
ABSTRACT_LINKED == <<"W","e"," ","l","i","n","k","e","d"," ","t","h","e"," ","C","o","m","p","e","n","d","i","u","m"," ","t","o"," ","A","C","O"," ","f","i","l","e","s">>
\* "We examined nanoparticle delivery systems"
ABSTRACT_NANO == <<"W","e"," ","e","x","a","m","i","n","e","d"," ","n","a","n","o","p","a","r","t","i","c","l","e"," ","d","e","l","i","v","e","r","y"," ","s","y","s","t","e","m","s">>
\* "Hospitals in China"
ABSTRACT_CHINA == <<"H","o","s","p","i","t","a","l","s"," ","i","n"," ","C","h","i","n","a">>
\* "Furukawa MF; Machta RM"
AUTHORS_SEED == <<"F","u","r","u","k","a","w","a"," ","M","F",";"," ","M","a","c","h","t","a"," ","R","M">>
\* "130674227"
PMID_CONTAINS_SEED == <<"1","3","0","6","7","4","2","2","7">>
\* "compendium of u\.s\."
PATTERN_US == <<"c","o","m","p","e","n","d","i","u","m"," ","o","f"," ","u","\\",".","s","\\",".">>
EMPTY == <<>>

-----------------------------------------------------------------------------
(* Year values *)

\* A year cell: an integer, a missing value (None / NaN), or a text that is
\* not a number.
YearInt(n) == [tag |-> "int", n |-> n]
YearNone == [tag |-> "none", n |-> 0]
YearText == [tag |-> "text", n |-> 0]
NaN == [tag |-> "nan", n |-> 0]
IsNaN(y) == y.tag = "nan"

-----------------------------------------------------------------------------
(* Configuration (config.py) *)

\* Mutation of RELEVANCE_WEIGHTS: a canonical mention is a penalty.
RELEVANCE_WEIGHTS_CanonicalPenalty ==
    [keyword_hit |-> 1, canonical_term |-> -4, dataset_author_seed |-> 3,
     integration_term |-> 2, scope_term |-> 2, journal_whitelist |-> 1,
     neg_geography |-> -2, neg_domain |-> -2,
     short_title |-> 0, old_paper |-> -1]

\* Mutation of RELEVANCE_WEIGHTS: the baseline keyword_hit is a penalty.
RELEVANCE_WEIGHTS_BaselinePenalty ==
    [keyword_hit |-> -1, canonical_term |-> 4, dataset_author_seed |-> 3,
     integration_term |-> 2, scope_term |-> 2, journal_whitelist |-> 1,
     neg_geography |-> -2, neg_domain |-> -2,
     short_title |-> 0, old_paper |-> -1]

\* RELEVANCE_WEIGHTS, in units of 0.5
RELEVANCE_WEIGHTS ==
    [keyword_hit |-> 1, canonical_term |-> 4, dataset_author_seed |-> 3,
     integration_term |-> 2, scope_term |-> 2, journal_whitelist |-> 1,
     neg_geography |-> -2, neg_domain |-> -2,
     short_title |-> 0, old_paper |-> -1]

\* RELEVANCE_THRESHOLD = 0.0
RELEVANCE_THRESHOLD == 0

\* self.collectors, in insertion order
CollectorNames == <<"pubmed", "openalex", "citations">>

Sources == {CollectorNames[i] : i \in DOMAIN CollectorNames}

-----------------------------------------------------------------------------
(* The keyword registry (KeywordLoader) *)

\* A registry in which every scoring category is present; two canonical terms
\* and two negative-domain terms can match the same text.  It has one usage
\* pattern for the full-text stage.
RegistryFull ==
    [canonical_terms |-> <<TERM_AHRQ_COMPENDIUM, TERM_COMPENDIUM_US>>,
     dataset_author_seeds |-> <<TERM_SEED_PMID, TERM_SEED_AUTHOR>>,
     integration_terms |-> <<TERM_INTEGRATION>>,
     scope_terms |-> <<TERM_HEALTH_SYSTEM>>,
     journal_whitelist |-> <<JOURNAL_HSR, JOURNAL_HA>>,
     neg_geography |-> <<TERM_CHINA>>,
     neg_domain |-> <<TERM_IMIDAZOLINE, TERM_NANOPARTICLE>>,
     regex_usage_patterns |-> <<PATTERN_US>>]

\* A registry with categories missing from the YAML file and with a canonical
\* term that is a substring of other words' contexts.
RegistrySparse ==
    [canonical_terms |-> <<TERM_COMPENDIUM>>,
     journal_whitelist |-> <<JOURNAL_HA>>,
     neg_domain |-> <<TERM_DELIVERY, TERM_NANOPARTICLE>>]

Registries == {RegistryFull, RegistrySparse}

\* self.keywords.get(category, [])
KeywordsGet(kw, category) ==
    IF category \in DOMAIN kw THEN kw[category] ELSE <<>>

get_canonical_terms(kw) == KeywordsGet(kw, "canonical_terms")
get_dataset_author_seeds(kw) == KeywordsGet(kw, "dataset_author_seeds")
get_integration_terms(kw) == KeywordsGet(kw, "integration_terms")
get_scope_terms(kw) == KeywordsGet(kw, "scope_terms")
get_journal_whitelist(kw) == KeywordsGet(kw, "journal_whitelist")
get_neg_geography(kw) == KeywordsGet(kw, "neg_geography")
get_neg_domain(kw) == KeywordsGet(kw, "neg_domain")

-----------------------------------------------------------------------------
(* _score_row *)

\* [term for term in terms if term.lower() in text]
MatchingTerms(terms, text) ==
    SelectSeq(terms, LAMBDA term : Contains(text, Lower(term)))

\* The text fields of a row as _score_row reads them.
RowTitle(r) == Strip(Str(r.title))
RowAbstract(r) == Strip(Str(r.abstract))
RowAuthors(r) == Strip(Str(r.author_string))
RowJournal(r) == Strip(Str(r.journal))
RowPmid(r) == Strip(Str(r.pmid))

\* text = f"{title} {abstract}".lower()
RowText(r) == Lower(RowTitle(r) \o <<" ">> \o RowAbstract(r))

\* if year and int(year) < 2008, with ValueError/TypeError swallowed: a
\* missing year is None (falsy) or NaN (int() raises), a non-numeric text
\* raises, and the integer 0 is falsy.
OldPaper(year) == year.tag = "int" /\ year.n # 0 /\ year.n < 2008

\* Mutation of JournalWhitelisted: the whitelist is never consulted.
JournalWhitelisted_Never(journal, whitelist) == FALSE

\* journal in self.keyword_loader.get_journal_whitelist(): exact comparison
JournalWhitelisted(journal, whitelist) ==
    \E i \in DOMAIN whitelist : whitelist[i] = journal

\* Mutation of AddSignal: the weight is added whether or not the signal fired.
AddSignal_Always(acc, fired, name, w) ==
    [score |-> acc.score + w[name],
     flags |-> IF fired THEN Append(acc.flags, name) ELSE acc.flags]

\* One signal of _score_row: "if fired: score += w[name]; flags[name] = True".
AddSignal(acc, fired, name, w) ==
    IF fired
    THEN [score |-> acc.score + w[name], flags |-> Append(acc.flags, name)]
    ELSE acc

\* _score_row(row): the returned score and the flags that fired, in the order
\* the code sets them.
ScoreRow(r, kw, w) ==
    LET title == RowTitle(r)
        authors == RowAuthors(r)
        journal == RowJournal(r)
        pmid == RowPmid(r)
        text == RowText(r)
        matching_canonical == MatchingTerms(get_canonical_terms(kw), text)
        seed_terms == get_dataset_author_seeds(kw)
        seed_pmids == SelectSeq(seed_terms, IsDigit)
        seed_authors == SelectSeq(seed_terms, LAMBDA item : ~IsDigit(item))
        has_seed_cite ==
            \E i \in DOMAIN seed_pmids : Contains(pmid, seed_pmids[i])
        author_matches ==
            SelectSeq(seed_authors,
                      LAMBDA author : Contains(Lower(authors), Lower(author)))
        matching_integration == MatchingTerms(get_integration_terms(kw), text)
        matching_scope == MatchingTerms(get_scope_terms(kw), text)
        whitelist == get_journal_whitelist(kw)
        matching_geography == MatchingTerms(get_neg_geography(kw), text)
        matching_domain == MatchingTerms(get_neg_domain(kw), text)
        s0 == [score |-> 0, flags |-> <<>>]
        s1 == AddSignal(s0, TRUE, "keyword_hit", w)
        s2 == AddSignal(s1, matching_canonical # <<>>, "canonical_term", w)
        s3 == AddSignal(s2, has_seed_cite \/ author_matches # <<>>,
                        "dataset_author_seed", w)
        s4 == AddSignal(s3, matching_integration # <<>>, "integration_term", w)
        s5 == AddSignal(s4, matching_scope # <<>>, "scope_term", w)
        s6 == AddSignal(s5, JournalWhitelisted(journal, whitelist),
                        "journal_whitelist", w)
        s7 == AddSignal(s6, matching_geography # <<>>, "neg_geography", w)
        s8 == AddSignal(s7, matching_domain # <<>>, "neg_domain", w)
        s9 == AddSignal(s8, WordCount(title) < 5, "short_title", w)
        s10 == AddSignal(s9, OldPaper(r.year), "old_paper", w)
    IN s10

\* Mutation of MeetsThreshold: a score equal to the threshold is pruned.
MeetsThreshold_Strict(score) == score > RELEVANCE_THRESHOLD

\* Mutation of MeetsThreshold: nothing is pruned.
MeetsThreshold_Always(score) == TRUE

\* df[df["stage2_score"] >= config.RELEVANCE_THRESHOLD]
MeetsThreshold(score) == score >= RELEVANCE_THRESHOLD

-----------------------------------------------------------------------------
(* Rows of a DataFrame *)

\* A normalized record as a collector returns it; index is the row label.
RawRow(i, title, abstract, authors, journal, year, doi, pmid) ==
    [index |-> i, title |-> title, abstract |-> abstract,
     author_string |-> authors, journal |-> journal, year |-> year,
     doi |-> doi, pmid |-> pmid]

\* df["stage2_score"] = df.apply(self._score_row, axis=1): the row with its
\* score column.
WithScore(r, kw) ==
    [index |-> r.index, title |-> r.title, abstract |-> r.abstract,
     author_string |-> r.author_string, journal |-> r.journal,
     year |-> r.year, doi |-> r.doi, pmid |-> r.pmid,
     stage2_score |-> ScoreRow(r, kw, RELEVANCE_WEIGHTS).score]

\* The row labels 0..n-1 of a freshly built frame (RangeIndex).
ResetIndex(df) == [p \in DOMAIN df |-> [df[p] EXCEPT !.index = p - 1]]

\* df[mask]: the rows of df at the positions P, in order, labels kept.
SelectRows(df, P) ==
    LET F[k \in 0..Len(df)] ==
            IF k = 0 THEN <<>>
            ELSE IF k \in P THEN Append(F[k - 1], df[k]) ELSE F[k - 1]
    IN F[Len(df)]

-----------------------------------------------------------------------------
(* The parts of the state a specification does not exercise *)

\* No classification has been made.
NoClassification ==
    [uses_compendium |-> 0, method |-> "", matched_patterns |-> <<>>,
     evidence |-> <<>>]

\* A classifier as the tracker builds it from config.py: SPACY_CLASSIFY is
\* False, so no model is loaded.
\* The cache directory with no file in it, and no call of get_fulltext yet.
EmptyCache == <<>>
NotFetched == [at |-> "idle"]

DefaultClassifier == [use_spacy |-> FALSE, nlp |-> FALSE, regex_patterns |-> <<>>]

RestIdle ==
    /\ yaml_source = [kind |-> "mapping", value |-> keywords]
    /\ skip_fulltext = TRUE
    /\ classifier = DefaultClassifier
    /\ fulltext = EMPTY
    /\ classification = NoClassification
    /\ reports = {}
    /\ raw = [shape |-> "none"]
    /\ cache = EmptyCache
    /\ fetched = NotFetched

-----------------------------------------------------------------------------
(* _merge_deduplicate *)

\* list(all_citations.values()) concatenated: the sources' frames in the
\* dict's insertion order (a source with no retained rows has no entry).
RECURSIVE ConcatFrom(_, _)
ConcatFrom(cit, k) ==
    IF k > Len(CollectorNames) THEN <<>>
    ELSE cit[CollectorNames[k]] \o ConcatFrom(cit, k + 1)

\* pd.concat(dfs, ignore_index=True)
Concat(cit) == ResetIndex(ConcatFrom(cit, 1))

\* Mutation of DoiLower: the DOI column is left in the case it arrived in.
DoiLower_NotLowered(doi) == doi

\* merged_df['doi'].str.lower(): a missing value stays missing
DoiLower(doi) == IF doi = None THEN None ELSE Lower(doi)

\* re.sub(r'\W+', '', title): every character that is not a word character
\* (letter, digit, underscore) is removed
StripNonWord(s) == SelectSeq(s, IsWordChar)

\* Mutation of TitleNorm: the trailing .str.lower() is forgotten.
TitleNorm_NotLowered(title) ==
    IF title = None THEN None ELSE StripNonWord(title)

\* merged_df['title'].str.replace(r'\W+', '', regex=True).str.lower()
TitleNorm(title) == IF title = None THEN None ELSE Lower(StripNonWord(title))

\* pd.to_numeric(year, errors='coerce'): a number, or NaN for a missing or
\* non-numeric cell
to_numeric(year) == IF year.tag = "int" THEN year ELSE NaN

\* The frame after lines 393-399: doi lowercased, title_norm added.
Normalized(df) ==
    [p \in DOMAIN df |->
        [index |-> df[p].index, title |-> df[p].title,
         abstract |-> df[p].abstract, author_string |-> df[p].author_string,
         journal |-> df[p].journal, year |-> df[p].year,
         doi |-> DoiLower(df[p].doi), pmid |-> df[p].pmid,
         stage2_score |-> df[p].stage2_score,
         title_norm |-> TitleNorm(df[p].title)]]

\* Mutation of IsSortOrder: rows without a numeric year are placed first
\* (na_position='first').
IsSortOrder_NaFirst(df, f) ==
    \A p, q \in DOMAIN df :
        p < q =>
            LET a == to_numeric(df[f[p]].year)
                b == to_numeric(df[f[q]].year)
            IN  IF IsNaN(b) THEN IsNaN(a) /\ f[p] < f[q]
                ELSE IsNaN(a) \/ a.n >= b.n

\* Whether the order f (position -> position in df) is one that
\* sort_values('year_numeric', ascending=False) can produce.  The call passes
\* no kind, so pandas sorts with numpy's 'quicksort', which is not stable:
\* rows with a number come first in descending order, rows with equal numbers
\* in an order the library does not specify; rows with NaN are appended last
\* (na_position='last') in their original order.
IsSortOrder(df, f) ==
    \A p, q \in DOMAIN df :
        p < q =>
            LET a == to_numeric(df[f[p]].year)
                b == to_numeric(df[f[q]].year)
            IN  IF IsNaN(a) THEN IsNaN(b) /\ f[p] < f[q]
                ELSE IsNaN(b) \/ a.n >= b.n

\* Every frame sort_values can return for df.
SortValuesByYear(df) ==
    LET n == Len(df)
        Orders == {f \in [1..n -> 1..n] :
                      /\ \A a, b \in 1..n : a # b => f[a] # f[b]
                      /\ IsSortOrder(df, f)}
    IN {[p \in 1..n |-> df[f[p]]] : f \in Orders}

\* df.drop_duplicates(subset=[column], keep='first'): a row is dropped when an
\* earlier row has an equal cell; pandas counts two missing cells as equal.
DropDuplicates(df, column) ==
    SelectRows(df, {p \in DOMAIN df :
                      \A q \in 1..(p - 1) : df[q][column] # df[p][column]})

\* Lines 384-388: no source retained anything.
MergeEmpty ==
    /\ pc = "merge"
    /\ \A s \in Sources : all_citations[s] = <<>>
    /\ merged_df' = <<>>
    /\ pc' = "merged"
    /\ UNCHANGED <<keywords, search_results, all_citations, row, stage2_score,
                   score_flags, prev_score, prev_flags, restVars>>

\* Lines 390-407: concatenate, normalize the keys, sort by year descending.
MergeSort ==
    /\ pc = "merge"
    /\ \E s \in Sources : all_citations[s] # <<>>
    /\ \E combined \in {Normalized(Concat(all_citations))} :
          merged_df' \in SortValuesByYear(combined)
    /\ pc' = "sorted"
    /\ UNCHANGED <<keywords, search_results, all_citations, row, stage2_score,
                   score_flags, prev_score, prev_flags, restVars>>

\* Lines 413-414: drop_duplicates(subset=['doi'], keep='first')
DedupDoi ==
    /\ pc = "sorted"
    /\ merged_df' = DropDuplicates(merged_df, "doi")
    /\ pc' = "doi_deduped"
    /\ UNCHANGED <<keywords, search_results, all_citations, row, stage2_score,
                   score_flags, prev_score, prev_flags, restVars>>

\* A file of the output directory: its name and the rows written to it.
OutputFile(name, rows) == [file |-> name, rows |-> rows]

\* Lines 417-441: drop_duplicates(subset=['title_norm'], keep='first'), then
\* merged_df.to_csv writes citations_pre_fulltext.csv with every column of
\* the frame.
DedupTitle ==
    /\ pc = "doi_deduped"
    /\ merged_df' = DropDuplicates(merged_df, "title_norm")
    /\ reports' = reports \cup
                     {OutputFile("citations_pre_fulltext.csv", merged_df')}
    /\ pc' = "merged"
    /\ UNCHANGED <<keywords, search_results, all_citations, row, stage2_score,
                   score_flags, prev_score, prev_flags, yaml_source,
                   skip_fulltext, classifier, fulltext, classification, raw,
                   cache, fetched>>

-----------------------------------------------------------------------------
(* _collect_citations: one iteration of the loop over self.collectors *)

\* What one collector handed back in this run: it raised, it returned None or
\* an empty frame ("nothing"), or it returned rows; df is the returned frame
\* with the stage2_score column line 305 adds to it.
SearchResult(name, outcome, df) == [name |-> name, outcome |-> outcome, df |-> df]

\* CUTOFF_YEAR of the citation collector
CUTOFF_YEAR == 2017

\* Whether the collector of a source can return the record.  The PubMed and
\* OpenAlex collectors return a lowercased DOI or None and a year or None; the
\* citation collector returns the DOI as E-utilities spells it, or "" when
\* there is none, and only records whose year is a number >= CUTOFF_YEAR.
CanReturn(name, r) ==
    IF name = "citations"
    THEN r.doi # None /\ r.year.tag = "int" /\ r.year.n >= CUTOFF_YEAR
    ELSE r.doi = None \/ (r.doi # EMPTY /\ r.doi = Lower(r.doi))

\* The cells of the records a collector returns.
PipeTitles == {TITLE_EDITORIAL, TITLE_NEGATIVE}
PipeYears == {YearInt(2005), YearInt(2020)}
PipeDois == {None, DOI_LOWER}

PipeRows ==
    {RawRow(0, t, EMPTY, EMPTY, EMPTY, y, d, EMPTY) :
        t \in PipeTitles, y \in PipeYears, d \in PipeDois}

\* for c in s: the characters of a string, each a string of length one
Chars(s) == [i \in DOMAIN s |-> <<s[i]>>]

\* The registry {neg_domain: "delivery"} as the code reads it: the getter
\* returns the string, and "for term in ..." runs over its characters.
RegistryCharwise == [neg_domain |-> Chars(TERM_DELIVERY)]

\* The registries under which a frame can be scored.
ScoredRegistries == Registries \cup {RegistryCharwise}

\* self._score_row tabulated over the registries and the records above.
Stage2Scores ==
    [kw \in ScoredRegistries |->
        [r \in PipeRows |-> ScoreRow(r, kw, RELEVANCE_WEIGHTS).score]]

\* df["stage2_score"] = df.apply(self._score_row, axis=1): the column holds the
\* returned scores.  _score_row also assigns row["score_flags"] (line 263),
\* but row is the Series apply() hands out, not the frame: the frame gets no
\* score_flags column.
apply_score_row(df, kw) ==
    [p \in DOMAIN df |->
        [index |-> df[p].index, title |-> df[p].title,
         abstract |-> df[p].abstract, author_string |-> df[p].author_string,
         journal |-> df[p].journal, year |-> df[p].year, doi |-> df[p].doi,
         pmid |-> df[p].pmid,
         stage2_score |-> Stage2Scores[kw][[df[p] EXCEPT !.index = 0]]]]

\* The categories _score_row reads, and those get_all_search_terms reads.
ScoringCategories ==
    {"canonical_terms", "dataset_author_seeds", "integration_terms",
     "scope_terms", "journal_whitelist", "neg_geography", "neg_domain"}
SearchCategories ==
    {"exact_urls", "pdf_urls", "phrase_variants", "year_combos",
     "ahrq_combos", "funding_acknowledgment"}

\* Whether _score_row raises under the registry file src.  A file whose
\* mapping gives a category a value that is no list of strings still loads:
\* a null or a number cannot be iterated or searched (TypeError); a number
\* in a list has no .lower() (AttributeError), except among the
\* dataset_author_seeds, where isinstance guards it, and in the
\* journal_whitelist, which is only searched; a string is iterated character
\* by character and raises nothing.
ScoringRaises(src) ==
    /\ src.kind = "bad_category"
    /\ src.value.category \in ScoringCategories
    /\ \/ src.value.type \in {"none", "int"}
       \/ /\ src.value.type = "list_of_int"
          /\ src.value.category \notin
                {"dataset_author_seeds", "journal_whitelist"}

\* The collector the loop is at, and where the run goes after it.
CurrentCollector == CollectorNames[Len(search_results) + 1]

AfterCollector ==
    IF Len(search_results) + 1 = Len(CollectorNames) THEN "merge" ELSE "collect"

\* The number of records the collectors have returned so far.
RECURSIVE RowsUpTo(_, _)
RowsUpTo(res, k) ==
    IF k = 0 THEN 0 ELSE Len(res[k].df) + RowsUpTo(res, k - 1)

RowsSoFar == RowsUpTo(search_results, Len(search_results))

\* Mutation of OnCollectorError: a failure discards what the run collected.
OnCollectorError_DropAll(cit, name) == [s \in Sources |-> <<>>]

\* except Exception (lines 367-368): the error is logged with the source's
\* name; nothing was stored for the source and the other entries stay.
OnCollectorError(cit, name) == cit

\* collector.search raises: the except clause logs the error and the loop
\* goes on with the next collector.
CollectorRaises ==
    /\ pc = "collect"
    /\ search_results' =
          Append(search_results, SearchResult(CurrentCollector, "raised", <<>>))
    /\ all_citations' = OnCollectorError(all_citations, CurrentCollector)
    /\ pc' = AfterCollector
    /\ UNCHANGED <<keywords, merged_df, row, stage2_score,
                   score_flags, prev_score, prev_flags, restVars>>

\* collector.search returns None or an empty frame: the else branch of line
\* 303 logs a warning.
CollectorReturnsNothing ==
    /\ pc = "collect"
    /\ search_results' =
          Append(search_results, SearchResult(CurrentCollector, "nothing", <<>>))
    /\ pc' = AfterCollector
    /\ UNCHANGED <<keywords, all_citations, merged_df, row, stage2_score,
                   score_flags, prev_score, prev_flags, restVars>>

\* collector.search returns rows: they are scored (line 305), pruned (line
\* 333) and stored if any is left (lines 350-351).  Line 363 then reads the
\* column score_flags, which no collector provides and apply() does not
\* create: the KeyError is caught by the except clause after the frame has
\* been stored.
CollectorReturnsRows ==
    /\ pc = "collect"
    /\ ~ScoringRaises(yaml_source)
    /\ \E n \in 1..(MaxRecs - RowsSoFar) :
         \E returned \in
            [1..n -> {r \in PipeRows : CanReturn(CurrentCollector, r)}] :
            LET name == CurrentCollector
                df == apply_score_row(ResetIndex(returned), keywords)
                pruned ==
                    SelectRows(df, {p \in DOMAIN df :
                                      MeetsThreshold(df[p].stage2_score)})
            IN  /\ search_results' =
                      Append(search_results, SearchResult(name, "rows", df))
                /\ all_citations' =
                      IF pruned # <<>>
                      THEN [all_citations EXCEPT ![name] = pruned]
                      ELSE all_citations
    /\ pc' = AfterCollector
    /\ UNCHANGED <<keywords, merged_df, row, stage2_score, score_flags,
                   prev_score, prev_flags, restVars>>

\* collector.search returns rows and _score_row raises on the first of them
\* (line 305): the except clause logs a collector error and the source
\* contributes nothing.
CollectorScoringRaises ==
    /\ pc = "collect"
    /\ ScoringRaises(yaml_source)
    /\ \E n \in 1..(MaxRecs - RowsSoFar) :
         \E returned \in
            [1..n -> {r \in PipeRows : CanReturn(CurrentCollector, r)}] :
            search_results' =
               Append(search_results,
                      SearchResult(CurrentCollector, "scoring_raised",
                                   ResetIndex(returned)))
    /\ all_citations' = OnCollectorError(all_citations, CurrentCollector)
    /\ pc' = AfterCollector
    /\ UNCHANGED <<keywords, merged_df, row, stage2_score, score_flags,
                   prev_score, prev_flags, restVars>>

\* The tracker after construction, about to run(): the registry is loaded,
\* nothing has been collected.
Init ==
    /\ pc = "collect"
    /\ keywords \in Registries
    /\ search_results = <<>>
    /\ all_citations = [s \in Sources |-> <<>>]
    /\ merged_df = <<>>
    /\ row = RawRow(0, EMPTY, EMPTY, EMPTY, EMPTY, YearNone, None, EMPTY)
    /\ stage2_score = 0
    /\ score_flags = <<>>
    /\ prev_score = 0
    /\ prev_flags = <<>>
    /\ yaml_source = [kind |-> "mapping", value |-> keywords]
    /\ skip_fulltext \in BOOLEAN
    /\ classifier = DefaultClassifier
    /\ fulltext = EMPTY
    /\ classification = NoClassification
    /\ reports = {}
    /\ raw = [shape |-> "none"]
    /\ cache = EmptyCache
    /\ fetched = NotFetched


-----------------------------------------------------------------------------
(* Merge/dedup on its own: every dict of retained frames of at most MaxRecs *)
(* rows over the cells below                                                *)

DoiVals == {None, EMPTY, DOI_UPPER, DOI_LOWER}
TitleVals == {TITLE_SPACED, TITLE_PLAIN, TITLE_UNDERSCORE}
YearVals == {YearNone, YearInt(2019), YearInt(2020)}

\* The records some collector can return.
MergeCells ==
    {r \in {RawRow(0, t, EMPTY, EMPTY, EMPTY, y, d, EMPTY) :
               t \in TitleVals, y \in YearVals, d \in DoiVals} :
        \E name \in Sources : CanReturn(name, r)}

\* Retained rows: each carries the score column of the score+prune step.
MergeRows == {WithScore(r, RegistryFull) : r \in MergeCells}

\* The source the p-th of the records s came from: a record only one kind of
\* collector can return came from such a collector; any other came from
\* pubmed if it is the first, from openalex if the second, else from
\* citations (the same paper found by different sources is the case
\* merge/dedup is for).
SourceOf(s, p) ==
    IF ~CanReturn("pubmed", s[p]) THEN "citations"
    ELSE IF ~CanReturn("citations", s[p])
         THEN (IF p % 2 = 1 THEN "pubmed" ELSE "openalex")
    ELSE CollectorNames[IF p <= Len(CollectorNames) THEN p
                        ELSE Len(CollectorNames)]

\* The frames of a run that retained the records s; each frame carries its
\* own row labels.
FramesOf(s) ==
    [src \in Sources |->
        ResetIndex(SelectRows(s, {p \in DOMAIN s : SourceOf(s, p) = src}))]

InitMerge ==
    /\ pc = "merge"
    /\ keywords = RegistryFull
    /\ \E n \in 0..MaxRecs :
         \E s \in [1..n -> MergeRows] :
            /\ all_citations = FramesOf(s)
            /\ search_results =
                  [i \in DOMAIN CollectorNames |->
                      SearchResult(CollectorNames[i],
                                   IF FramesOf(s)[CollectorNames[i]] = <<>>
                                   THEN "nothing" ELSE "rows",
                                   FramesOf(s)[CollectorNames[i]])]
    /\ merged_df = <<>>
    /\ row = RawRow(0, EMPTY, EMPTY, EMPTY, EMPTY, YearNone, None, EMPTY)
    /\ stage2_score = 0
    /\ score_flags = <<>>
    /\ prev_score = 0
    /\ prev_flags = <<>>
    /\ RestIdle

NextMerge == MergeEmpty \/ MergeSort \/ DedupDoi \/ DedupTitle

SpecMerge == InitMerge /\ [][NextMerge]_vars

-----------------------------------------------------------------------------
(* _score_row on its own: every record over the cells below, under either  *)
(* registry                                                                 *)

ScoreTitles ==
    {TITLE_SCENARIO_A, TITLE_SCENARIO_B, TITLE_EDITORIAL, TITLE_NEGATIVE, None}
ScoreAbstracts == {EMPTY, ABSTRACT_LINKED, ABSTRACT_NANO, ABSTRACT_CHINA}
ScoreJournals == {EMPTY, JOURNAL_HSR, JOURNAL_HSR_LOWER, JOURNAL_HA}
ScoreAuthors == {EMPTY, AUTHORS_SEED}
ScorePmids == {EMPTY, PMID_CONTAINS_SEED}
ScoreYears == {YearNone, YearText, YearInt(2005), YearInt(2020)}

\* The record with a canonical term added to its abstract.
WithTermInAbstract(r, term) ==
    [r EXCEPT !.abstract =
        IF r.abstract = None \/ r.abstract = EMPTY THEN term
        ELSE r.abstract \o <<" ">> \o term]

InitScore ==
    /\ pc = "score"
    /\ keywords \in Registries
    /\ \E t \in ScoreTitles, a \in ScoreAbstracts, j \in ScoreJournals,
          au \in ScoreAuthors, pm \in ScorePmids, y \in ScoreYears :
            row = RawRow(0, t, a, au, j, y, None, pm)
    /\ search_results = <<>>
    /\ all_citations = [s \in Sources |-> <<>>]
    /\ merged_df = <<>>
    /\ stage2_score = 0
    /\ score_flags = <<>>
    /\ prev_score = 0
    /\ prev_flags = <<>>
    /\ RestIdle

\* score = self._score_row(row)
Score ==
    /\ pc = "score"
    /\ LET res == ScoreRow(row, keywords, RELEVANCE_WEIGHTS)
       IN  /\ stage2_score' = res.score
           /\ score_flags' = res.flags
    /\ pc' = "scored"
    /\ UNCHANGED <<keywords, search_results, all_citations, merged_df, row,
                   prev_score, prev_flags, restVars>>

\* The same record scored again after a canonical term of the registry is
\* added to its abstract; the first score is kept for comparison.
RescoreWithCanonical ==
    /\ pc = "scored"
    /\ \E i \in DOMAIN get_canonical_terms(keywords) :
          row' = WithTermInAbstract(row, get_canonical_terms(keywords)[i])
    /\ LET res == ScoreRow(row', keywords, RELEVANCE_WEIGHTS)
       IN  /\ stage2_score' = res.score
           /\ score_flags' = res.flags
    /\ prev_score' = stage2_score
    /\ prev_flags' = score_flags
    /\ pc' = "rescored"
    /\ UNCHANGED <<keywords, search_results, all_citations, merged_df, restVars>>

NextScore == Score \/ RescoreWithCanonical

SpecScore == InitScore /\ [][NextScore]_vars

-----------------------------------------------------------------------------
(* Merge/dedup: what the claims speak about *)

\* The records in arrival order, as _merge_deduplicate receives them; the row
\* labelled i is Arrival[i + 1].
Arrival == Concat(all_citations)

\* The labels of the rows of merged_df.
Kept == {merged_df[p].index : p \in DOMAIN merged_df}

\* A DOI that identifies a paper: neither missing nor the empty string.
HasDoi(r) == r.doi # None /\ r.doi # EMPTY

\* Two records with the same non-absent DOI, compared case-insensitively.
SameDoi(a, b) == HasDoi(a) /\ HasDoi(b) /\ Lower(a.doi) = Lower(b.doi)

\* The cell drop_duplicates compares in the doi column.
DoiCell(r) == IF r.doi = None THEN None ELSE Lower(r.doi)

\* A title lowercased with every non-word character removed.
WordNorm(title) == Lower(SelectSeq(title, IsWordChar))

\* A title lowercased with every non-alphanumeric character removed.
AlnumNorm(title) ==
    Lower(SelectSeq(title, LAMBDA c : IsWordChar(c) /\ c # "_"))

SameTitle(a, b) ==
    a.title # None /\ b.title # None /\ WordNorm(a.title) = WordNorm(b.title)

NumericYear(r) == r.year.tag = "int"

\* C1: no two rows of the merged output carry the same non-absent lowercased
\* DOI, every DOI of the output is lowercase, and of two records whose DOIs
\* are non-absent and equal case-insensitively, with different titles and
\* different years, exactly one is in the output: the one with the higher
\* year.
Thm_C1_DoiDedupKeepsHigherYear ==
    pc = "merged" =>
        /\ \A p, q \in DOMAIN merged_df :
              p < q /\ merged_df[p].doi # None =>
                  merged_df[p].doi # merged_df[q].doi
        /\ \A p \in DOMAIN merged_df :
              merged_df[p].doi = DoiCell(Arrival[merged_df[p].index + 1])
        /\ \A i, j \in DOMAIN Arrival :
              /\ Len(Arrival) = 2
              /\ SameDoi(Arrival[i], Arrival[j])
              /\ Arrival[i].title # Arrival[j].title
              /\ NumericYear(Arrival[i]) /\ NumericYear(Arrival[j])
              /\ Arrival[i].year.n > Arrival[j].year.n
              => Kept = {Arrival[i].index}

\* Scenario C with the older record arriving first: DOI 10.1/abc of 2019, then
\* 10.1/ABC of 2020; the 2020 record alone remains.
Witness_C1 ==
    /\ pc = "merged"
    /\ Len(Arrival) = 2
    /\ Arrival[1].doi = DOI_LOWER /\ Arrival[1].year = YearInt(2019)
    /\ Arrival[2].doi = DOI_UPPER /\ Arrival[2].year = YearInt(2020)
    /\ Arrival[1].title = TITLE_SPACED /\ Arrival[2].title = TITLE_UNDERSCORE
    /\ Len(merged_df) = 1
    /\ merged_df[1].index = 1
    /\ merged_df[1].year = YearInt(2020)
    /\ merged_df[1].doi = DOI_LOWER

\* C2: two records that both lack a DOI and have different normalized titles
\* both survive merge/dedup.
Claim_C2_AbsentDoiNeverMerges ==
    pc = "merged" /\ Len(Arrival) = 2 =>
        (/\ ~HasDoi(Arrival[1]) /\ ~HasDoi(Arrival[2])
         /\ ~SameTitle(Arrival[1], Arrival[2])
         => Len(merged_df) = 2)

FirstByTitle(df) ==
    {p \in DOMAIN df : \A q \in 1..(p - 1) : df[q].title_norm # df[p].title_norm}

Claim_C4_StableTieBreak ==
    /\ pc = "sorted" =>
          \A p, q \in DOMAIN merged_df :
              /\ p < q
              /\ NumericYear(merged_df[p]) /\ NumericYear(merged_df[q])
              /\ merged_df[p].year.n = merged_df[q].year.n
              => merged_df[p].index < merged_df[q].index
    /\ pc = "merged" /\ Len(Arrival) = 2 =>
          (/\ SameDoi(Arrival[1], Arrival[2]) \/ SameTitle(Arrival[1], Arrival[2])
           /\ NumericYear(Arrival[1]) /\ NumericYear(Arrival[2])
           /\ Arrival[1].year.n = Arrival[2].year.n
           => Kept = {0})

-----------------------------------------------------------------------------
(* Score + prune per source: what the claims speak about *)

\* The rows of the frame stored for a source that carry the label i.
StoredAt(name, i) ==
    {q \in DOMAIN all_citations[name] : all_citations[name][q].index = i}

\* C6: for every record a collector returned and the run scored, a score
\* below the threshold means the record is not in the source's pruned frame,
\* and a score at or above the threshold (equal included) means it is there,
\* once and unchanged; the pruned frame holds nothing else, in the order the
\* records were returned, and a source whose collector raised or returned
\* nothing has no frame.
Thm_C6_ThresholdGate ==
    /\ \A k \in DOMAIN search_results :
          LET res == search_results[k]
              kept == all_citations[res.name]
          IN  /\ res.outcome # "rows" => kept = <<>>
              /\ \A p \in DOMAIN res.df :
                    LET r == res.df[p]
                    IN  /\ r.stage2_score < RELEVANCE_THRESHOLD =>
                              StoredAt(res.name, r.index) = {}
                        /\ r.stage2_score >= RELEVANCE_THRESHOLD =>
                              /\ Cardinality(StoredAt(res.name, r.index)) = 1
                              /\ \A q \in StoredAt(res.name, r.index) :
                                    kept[q] = r
              /\ \A q \in DOMAIN kept :
                    \E p \in DOMAIN res.df : res.df[p] = kept[q]
              /\ \A q1, q2 \in DOMAIN kept :
                    q1 < q2 => kept[q1].index < kept[q2].index
    /\ \A k \in DOMAIN CollectorNames :
          k > Len(search_results) /\ pc = "collect" =>
              all_citations[CollectorNames[k]] = <<>>

\* pubmed returned a record that scores below the threshold followed by one
\* that scores exactly the threshold (keyword_hit 0.5 + old_paper -0.5): the
\* pruned frame holds the second record alone.
Witness_C6 ==
    /\ Len(search_results) >= 1
    /\ search_results[1].outcome = "rows"
    /\ Len(search_results[1].df) = 2
    /\ search_results[1].df[1].stage2_score < RELEVANCE_THRESHOLD
    /\ search_results[1].df[2].stage2_score = RELEVANCE_THRESHOLD
    /\ Len(all_citations["pubmed"]) = 1
    /\ all_citations["pubmed"][1] = search_results[1].df[2]
    /\ all_citations["pubmed"][1].index = 1

-----------------------------------------------------------------------------
(* The scorer: what the claims speak about *)

\* The ten signal categories.
SignalNames ==
    {"keyword_hit", "canonical_term", "dataset_author_seed",
     "integration_term", "scope_term", "journal_whitelist", "neg_geography",
     "neg_domain", "short_title", "old_paper"}

\* Some term of the list occurs in the text, case-insensitively.
Mentions(text, terms) ==
    \E i \in DOMAIN terms : Contains(Lower(text), Lower(terms[i]))

\* The title and the abstract of a record as one text.
TitleAndAbstract(r) == RowTitle(r) \o <<" ">> \o RowAbstract(r)

\* The trigger condition of a signal category for a record.
Trigger(name, r, kw) ==
    CASE name = "keyword_hit" -> TRUE
      [] name = "canonical_term" ->
            Mentions(TitleAndAbstract(r), get_canonical_terms(kw))
      [] name = "dataset_author_seed" ->
            \E i \in DOMAIN get_dataset_author_seeds(kw) :
                LET seed == get_dataset_author_seeds(kw)[i]
                IN  IF IsDigit(seed) THEN Contains(RowPmid(r), seed)
                    ELSE Contains(Lower(RowAuthors(r)), Lower(seed))
      [] name = "integration_term" ->
            Mentions(TitleAndAbstract(r), get_integration_terms(kw))
      [] name = "scope_term" ->
            Mentions(TitleAndAbstract(r), get_scope_terms(kw))
      [] name = "journal_whitelist" ->
            \E i \in DOMAIN get_journal_whitelist(kw) :
                get_journal_whitelist(kw)[i] = RowJournal(r)
      [] name = "neg_geography" ->
            Mentions(TitleAndAbstract(r), get_neg_geography(kw))
      [] name = "neg_domain" ->
            Mentions(TitleAndAbstract(r), get_neg_domain(kw))
      [] name = "short_title" -> WordCount(RowTitle(r)) < 5
      [] name = "old_paper" -> r.year.tag = "int" /\ r.year.n \in 1..2007

\* The categories whose trigger holds for the record.
Fired(r, kw) == {name \in SignalNames : Trigger(name, r, kw)}

\* The sum of the configured weights of a set of categories.
RECURSIVE WeightOf(_)
WeightOf(S) ==
    IF S = {} THEN 0
    ELSE LET name == CHOOSE x \in S : TRUE
         IN  RELEVANCE_WEIGHTS[name] + WeightOf(S \ {name})

\* The set of the flags _score_row set.
FlagSet(flags) == {flags[i] : i \in DOMAIN flags}

\* C7: the score _score_row returns is the sum of the configured weights of
\* exactly the categories whose trigger holds for the record; the flags it
\* sets are those categories, each once; keyword_hit is always among them.
Thm_C7_ScoreIsSumOfFiredWeights ==
    pc \in {"scored", "rescored"} =>
        /\ stage2_score = WeightOf(Fired(row, keywords))
        /\ FlagSet(score_flags) = Fired(row, keywords)
        /\ Cardinality(FlagSet(score_flags)) = Len(score_flags)
        /\ "keyword_hit" \in FlagSet(score_flags)

\* The title "Imidazoline receptor studies using the AHRQ Compendium" with the
\* abstract "We examined nanoparticle delivery systems" in Health Affairs:
\* two negative-domain terms match, the penalty is applied once, and the
\* score is 0.5 + 2.0 + 0.5 - 1.0 = 2.0.
Witness_C7 ==
    /\ pc = "scored"
    /\ keywords = RegistryFull
    /\ row.title = TITLE_SCENARIO_B /\ row.abstract = ABSTRACT_NANO
    /\ row.journal = JOURNAL_HA /\ row.author_string = EMPTY
    /\ row.pmid = EMPTY /\ row.year = YearNone
    /\ Len(MatchingTerms(get_neg_domain(keywords), RowText(row))) = 2
    /\ stage2_score = 4
    /\ score_flags = <<"keyword_hit", "canonical_term", "journal_whitelist",
                       "neg_domain">>

\* C8: scoring the same record again after a canonical term is added to its
\* abstract sets the canonical_term flag, and if every other signal has the
\* outcome it had before, the score has not decreased: it is the score before
\* plus the canonical weight if no canonical term matched before, and the
\* score before otherwise.
Thm_C8_CanonicalMatchMonotone ==
    pc = "rescored" =>
        /\ "canonical_term" \in FlagSet(score_flags)
        /\ FlagSet(score_flags) \ {"canonical_term"}
             = FlagSet(prev_flags) \ {"canonical_term"}
           => /\ stage2_score >= prev_score
              /\ stage2_score =
                    IF "canonical_term" \in FlagSet(prev_flags) THEN prev_score
                    ELSE prev_score + RELEVANCE_WEIGHTS.canonical_term

\* A record that mentions no canonical term ("Editorial", abstract "Hospitals
\* in China", year 2005) scores 0.5 - 1.0 - 0.5 = -1.0; with "AHRQ Compendium"
\* added to the abstract it scores 1.0 and every other signal is unchanged.
Witness_C8 ==
    /\ pc = "rescored"
    /\ keywords = RegistryFull
    /\ row.title = TITLE_EDITORIAL
    /\ row.abstract = ABSTRACT_CHINA \o <<" ">> \o TERM_AHRQ_COMPENDIUM
    /\ row.year = YearInt(2005)
    /\ "canonical_term" \notin FlagSet(prev_flags)
    /\ FlagSet(score_flags) = FlagSet(prev_flags) \cup {"canonical_term"}
    /\ prev_score = -2
    /\ stage2_score = 2

\* C9: a record whose title or abstract mentions a canonical term, whose
\* journal is on the whitelist, which has no year and mentions no
\* negative-geography and no negative-domain term, scores at least
\* keyword_hit + canonical_term + journal_whitelist, which is at or above the
\* threshold: the record is retained.
Thm_C9_ScenarioARetained ==
    pc = "scored" =>
        (/\ Mentions(TitleAndAbstract(row), get_canonical_terms(keywords))
         /\ \E i \in DOMAIN get_journal_whitelist(keywords) :
               get_journal_whitelist(keywords)[i] = row.journal
         /\ row.year = YearNone
         /\ ~Mentions(TitleAndAbstract(row), get_neg_geography(keywords))
         /\ ~Mentions(TitleAndAbstract(row), get_neg_domain(keywords))
         => /\ stage2_score >= RELEVANCE_WEIGHTS.keyword_hit
                                  + RELEVANCE_WEIGHTS.canonical_term
                                  + RELEVANCE_WEIGHTS.journal_whitelist
            /\ stage2_score >= RELEVANCE_THRESHOLD)

\* Scenario A: "Hospital integration using the AHRQ Compendium of U.S. Health
\* Systems", abstract "We linked the Compendium to ACO files", in Health
\* Services Research: 0.5 + 2.0 + 1.0 + 1.0 + 0.5 = 5.0.
Witness_C9 ==
    /\ pc = "scored"
    /\ keywords = RegistryFull
    /\ row.title = TITLE_SCENARIO_A /\ row.abstract = ABSTRACT_LINKED
    /\ row.journal = JOURNAL_HSR /\ row.author_string = EMPTY
    /\ row.pmid = EMPTY /\ row.year = YearNone
    /\ stage2_score = 10

\* C10: a record whose title mentions a canonical term and whose title or
\* abstract mentions a negative-domain term scores below the threshold.
Claim_C10_ScenarioBPruned ==
    pc = "scored" =>
        (/\ row.title # None
         /\ Mentions(row.title, get_canonical_terms(keywords))
         /\ Mentions(TitleAndAbstract(row), get_neg_domain(keywords))
         => stage2_score < RELEVANCE_THRESHOLD)

-----------------------------------------------------------------------------
(* Signal flags of the retained records *)

\* The columns of a row of a frame.
Columns(r) == DOMAIN r

\* C11: every record retained in a source's frame and every record of the
\* merged output carries a score_flags value that is the set of the signal
\* categories that fired for it, keyword_hit among them.
Claim_C11_RetainedCarryFlags ==
    /\ \A s \in Sources :
          \A q \in DOMAIN all_citations[s] :
             LET r == all_citations[s][q]
             IN  /\ "score_flags" \in Columns(r)
                 /\ FlagSet(r.score_flags) = Fired(r, keywords)
                 /\ "keyword_hit" \in FlagSet(r.score_flags)
    /\ \A p \in DOMAIN merged_df :
          /\ "score_flags" \in Columns(merged_df[p])
          /\ "keyword_hit" \in FlagSet(merged_df[p].score_flags)

-----------------------------------------------------------------------------
(* UsageClassifier *)

\* "ahrq.data"
PATTERN_WILD == <<"a","h","r","q",".","d","a","t","a">>
\* "(ahrq"
PATTERN_INVALID == <<"(","a","h","r","q">>
\* "ahrq.gov/c"
URL_COMPENDIUM == <<"a","h","r","q",".","g","o","v","/","c">>
\* "See AHRQ.GOV/C"
TEXT_URL_UPPER == <<"S","e","e"," ","A","H","R","Q",".","G","O","V","/","C">>
\* "see ahrqxgov/c"
TEXT_URL_LOOKALIKE == <<"s","e","e"," ","a","h","r","q","x","g","o","v","/","c">>
\* "AHRQ data; AHRQ-data"
TEXT_AHRQ_DATA == <<"A","H","R","Q"," ","d","a","t","a",";"," ","A","H","R","Q","-","d","a","t","a">>
\* "(ahrq"
TEXT_PAREN == <<"(","a","h","r","q">>

\* self.keywords.get('regex_usage_patterns', [])
get_regex_patterns(kw) == KeywordsGet(kw, "regex_usage_patterns")

\* get_all_urls: exact_urls followed by pdf_urls
get_all_urls(kw) == KeywordsGet(kw, "exact_urls") \o KeywordsGet(kw, "pdf_urls")

\* A registry with usage patterns (one of them no valid regex) and a URL.
RegistryUsage ==
    [canonical_terms |-> <<TERM_COMPENDIUM_US>>,
     regex_usage_patterns |-> <<PATTERN_US, PATTERN_INVALID, PATTERN_WILD>>,
     exact_urls |-> <<URL_COMPENDIUM>>]

\* A registry whose only usage pattern is the empty regex, which matches at
\* every position of every text.
RegistryEmptyPattern == [regex_usage_patterns |-> <<EMPTY>>, pdf_urls |-> <<>>]

ClassifierRegistries == {RegistryUsage, RegistryEmptyPattern, RegistrySparse}

\* The characters with a meaning in a regex.
SpecialChars == {".", "(", ")", "\\", "?", "*", "+", "[", "]", "^", "$", "|"}

\* Mutation of Escape: the URL is compiled as it is written.
Escape_Unescaped(s) == s

\* re.escape(s): a backslash before every special character
RECURSIVE Escape(_)
Escape(s) ==
    IF s = <<>> THEN <<>>
    ELSE (IF Head(s) \in SpecialChars THEN <<"\\", Head(s)>> ELSE <<Head(s)>>)
         \o Escape(Tail(s))

\* re.compile(pattern, re.IGNORECASE) for patterns made of plain characters,
\* escaped characters and the wildcard ".": the atoms of the pattern, or
\* re.error for an unescaped special character that needs an operand or a
\* partner (an unclosed group, a trailing backslash).
RECURSIVE Compile(_)
Compile(pattern) ==
    IF pattern = <<>> THEN [ok |-> TRUE, atoms |-> <<>>]
    ELSE IF Head(pattern) = "\\"
    THEN IF Len(pattern) = 1 THEN [ok |-> FALSE, atoms |-> <<>>]
         ELSE LET rest == Compile(SubSeq(pattern, 3, Len(pattern)))
              IN  [ok |-> rest.ok,
                   atoms |-> <<[any |-> FALSE, c |-> LowerChar(pattern[2])]>>
                             \o rest.atoms]
    ELSE IF Head(pattern) = "."
    THEN LET rest == Compile(Tail(pattern))
         IN  [ok |-> rest.ok,
              atoms |-> <<[any |-> TRUE, c |-> "."]>> \o rest.atoms]
    ELSE IF Head(pattern) \in SpecialChars
    THEN [ok |-> FALSE, atoms |-> <<>>]
    ELSE LET rest == Compile(Tail(pattern))
         IN  [ok |-> rest.ok,
              atoms |-> <<[any |-> FALSE, c |-> LowerChar(Head(pattern))]>>
                        \o rest.atoms]

\* A compiled pattern: its source text (pattern.pattern) and its atoms.
Compiled(pattern) == [pattern |-> pattern, atoms |-> Compile(pattern).atoms]

\* Whether the pattern matches the text starting at position i.
MatchesAt(atoms, text, i) ==
    /\ i + Len(atoms) - 1 <= Len(text)
    /\ \A k \in DOMAIN atoms :
          \/ atoms[k].any /\ text[i + k - 1] # "\n"
          \/ ~atoms[k].any /\ LowerChar(text[i + k - 1]) = atoms[k].c

\* pattern.finditer(text): the start positions of the non-overlapping
\* matches, scanning from position i.
RECURSIVE FindIter(_, _, _)
FindIter(atoms, text, i) ==
    IF i > Len(text) + 1 THEN <<>>
    ELSE IF MatchesAt(atoms, text, i)
    THEN <<i>> \o FindIter(atoms, text,
                           IF Len(atoms) = 0 THEN i + 1 ELSE i + Len(atoms))
    ELSE FindIter(atoms, text, i + 1)

\* _compile_regex_patterns: the registry's regex patterns that compile, then
\* the registry's URLs escaped.
_compile_regex_patterns(kw) ==
    LET raw_patterns == get_regex_patterns(kw)
        valid == SelectSeq(raw_patterns, LAMBDA p : Compile(p).ok)
        urls == get_all_urls(kw)
        escaped == [k \in DOMAIN urls |-> Escape(urls[k])]
    IN  [k \in DOMAIN valid |-> Compiled(valid[k])]
        \o [k \in DOMAIN escaped |-> Compiled(escaped[k])]

\* The first n elements of a sequence (matches[:3]).
Take(s, n) == SubSeq(s, 1, IF Len(s) < n THEN Len(s) ELSE n)

\* The evidence of one pattern: the text of each of its first three matches
\* (the code adds up to 100 characters of context on either side).
EvidenceOf(p, text) ==
    LET starts == Take(FindIter(p.atoms, text, 1), 3)
    IN  [k \in DOMAIN starts |->
            SubSeq(text, starts[k], starts[k] + Len(p.atoms) - 1)]

RECURSIVE Flatten(_)
Flatten(ss) == IF ss = <<>> THEN <<>> ELSE Head(ss) \o Flatten(Tail(ss))

\* Mutation of _classify_with_regex: the contexts of the matches are not
\* collected.
_classify_with_regex_NoEvidence(text, patterns) ==
    LET hits == SelectSeq(patterns, LAMBDA p : FindIter(p.atoms, text, 1) # <<>>)
    IN  [uses_compendium |-> IF hits # <<>> THEN 1 ELSE 0,
         method |-> "regex",
         matched_patterns |-> [k \in DOMAIN hits |-> hits[k].pattern],
         evidence |-> <<>>]

\* _classify_with_regex(text)
_classify_with_regex(text, patterns) ==
    LET hits == SelectSeq(patterns, LAMBDA p : FindIter(p.atoms, text, 1) # <<>>)
    IN  [uses_compendium |-> IF hits # <<>> THEN 1 ELSE 0,
         method |-> "regex",
         matched_patterns |-> [k \in DOMAIN hits |-> hits[k].pattern],
         evidence |-> Flatten([k \in DOMAIN hits |-> EvidenceOf(hits[k], text)])]

\* Mutation of IsFalsy: no text counts as absent.
IsFalsy_Never(text) == FALSE

\* "not text": the empty string or None
IsFalsy(text) == text = EMPTY \/ text = None

\* The texts handed to the classifier.
ClassifyTexts ==
    {EMPTY, TERM_COMPENDIUM_US, ABSTRACT_CHINA, TEXT_URL_UPPER,
     TEXT_URL_LOOKALIKE, TEXT_AHRQ_DATA, TEXT_PAREN}

\* UsageClassifier.__init__: the patterns are compiled; the spaCy model is
\* loaded if it is asked for and its path exists, and a failed load turns
\* use_spacy off.
BuildClassifier ==
    /\ pc = "build"
    /\ \E model \in {"absent", "fails", "loads"} :
          classifier' =
             [use_spacy |-> classifier.use_spacy /\ model # "fails",
              nlp |-> classifier.use_spacy /\ model = "loads",
              regex_patterns |-> _compile_regex_patterns(keywords)]
    /\ pc' = "classify"
    /\ UNCHANGED <<keywords, search_results, all_citations, merged_df, row,
                   stage2_score, score_flags, prev_score, prev_flags,
                   yaml_source, skip_fulltext, fulltext, classification,
                   reports, raw,
                   cache, fetched>>

\* classify_usage(text) on an absent text (lines 96-102)
ClassifyAbsent ==
    /\ pc = "classify"
    /\ IsFalsy(fulltext)
    /\ classification' =
          [uses_compendium |-> 0, method |-> "none",
           matched_patterns |-> <<>>, evidence |-> <<>>]
    /\ pc' = "classified"
    /\ UNCHANGED <<keywords, search_results, all_citations, merged_df, row,
                   stage2_score, score_flags, prev_score, prev_flags,
                   yaml_source, skip_fulltext, classifier, fulltext, reports,
                   raw,
                   cache, fetched>>

\* classify_usage(text) answered by the regex patterns (lines 104-109): one
\* of them matched, or spaCy is off or no model is loaded.
ClassifyRegex ==
    /\ pc = "classify"
    /\ ~IsFalsy(fulltext)
    /\ LET regex_result ==
              _classify_with_regex(fulltext, classifier.regex_patterns)
       IN  /\ \/ regex_result.uses_compendium = 1
              \/ ~classifier.use_spacy
              \/ ~classifier.nlp
           /\ classification' = regex_result
    /\ pc' = "classified"
    /\ UNCHANGED <<keywords, search_results, all_citations, merged_df, row,
                   stage2_score, score_flags, prev_score, prev_flags,
                   yaml_source, skip_fulltext, classifier, fulltext, reports,
                   raw,
                   cache, fetched>>

\* classify_usage(text) answered by the spaCy model (lines 111-112): no
\* pattern matched; the model's USES_DATA score is above 0.6 or not.
ClassifySpacy ==
    /\ pc = "classify"
    /\ ~IsFalsy(fulltext)
    /\ _classify_with_regex(fulltext, classifier.regex_patterns).uses_compendium = 0
    /\ classifier.use_spacy
    /\ classifier.nlp
    /\ \E uses \in {0, 1} :
          classification' =
             [uses_compendium |-> uses, method |-> "spaCy",
              matched_patterns |-> <<<<"s","p","a","C","y">>>>,
              evidence |-> <<<<"s","p","a","C","y">>>>]
    /\ pc' = "classified"
    /\ UNCHANGED <<keywords, search_results, all_citations, merged_df, row,
                   stage2_score, score_flags, prev_score, prev_flags,
                   yaml_source, skip_fulltext, classifier, fulltext, reports,
                   raw,
                   cache, fetched>>

InitClassify ==
    /\ pc = "build"
    /\ keywords \in ClassifierRegistries
    /\ yaml_source = [kind |-> "mapping", value |-> keywords]
    /\ fulltext \in ClassifyTexts
    /\ \E use_spacy \in BOOLEAN :
          classifier = [use_spacy |-> use_spacy, nlp |-> FALSE,
                        regex_patterns |-> <<>>]
    /\ classification = NoClassification
    /\ skip_fulltext = FALSE
    /\ search_results = <<>>
    /\ all_citations = [s \in Sources |-> <<>>]
    /\ merged_df = <<>>
    /\ row = RawRow(0, EMPTY, EMPTY, EMPTY, EMPTY, YearNone, None, EMPTY)
    /\ stage2_score = 0
    /\ score_flags = <<>>
    /\ prev_score = 0
    /\ prev_flags = <<>>
    /\ reports = {}
    /\ raw = [shape |-> "none"]
    /\ cache = EmptyCache
    /\ fetched = NotFetched

NextClassify ==
    BuildClassifier \/ ClassifyAbsent \/ ClassifyRegex \/ ClassifySpacy

SpecClassify == InitClassify /\ [][NextClassify]_vars

-----------------------------------------------------------------------------
(* The classifier: what the claims speak about *)

\* The text contains the literal, compared case-insensitively.
ContainsLiteral(text, literal) == Contains(Lower(text), Lower(literal))

\* Some registry pattern matches somewhere in the text: a usage regex that
\* compiles, or a registry URL taken literally.
SomePatternMatches(text, kw) ==
    \/ \E k \in DOMAIN get_regex_patterns(kw) :
          LET compiled == Compile(get_regex_patterns(kw)[k])
          IN  /\ compiled.ok
              /\ \E i \in 1..(Len(text) + 1) : MatchesAt(compiled.atoms, text, i)
    \/ \E k \in DOMAIN get_all_urls(kw) :
          ContainsLiteral(text, get_all_urls(kw)[k])

Thm_C13_EmptyTextIsNone ==
    pc = "classified" /\ fulltext = EMPTY =>
        /\ classification.uses_compendium = 0
        /\ classification.method = "none"
        /\ classification.matched_patterns = <<>>
        /\ classification.evidence = <<>>

\* The empty string classified under the registry whose pattern is the empty
\* regex, with a loaded spaCy model.
Witness_C13 ==
    /\ pc = "classified"
    /\ fulltext = EMPTY
    /\ keywords = RegistryEmptyPattern
    /\ classifier.regex_patterns # <<>>
    /\ classifier.use_spacy /\ classifier.nlp
    /\ classification.method = "none"

-----------------------------------------------------------------------------
(* run(): full-text analysis and report generation *)

\* key_terms of extract_snippet
KEY_TERMS ==
    <<<<"c","o","m","p","e","n","d","i","u","m">>,
      <<"A","H","R","Q">>,
      <<"h","e","a","l","t","h"," ","s","y","s","t","e","m">>,
      <<"U",".","S","."," ","H","e","a","l","t","h"," ","S","y","s","t","e","m","s">>,
      <<"A","g","e","n","c","y"," ","f","o","r"," ","H","e","a","l","t","h","c","a","r","e"," ","R","e","s","e","a","r","c","h"," ","a","n","d"," ","Q","u","a","l","i","t","y">>>>

\* re.compile(r'\b' + re.escape(term) + r'\b', re.IGNORECASE).search(text),
\* for a term that begins and ends with a word character
SearchWord(term, text) ==
    \E i \in 1..(Len(text) - Len(term) + 1) :
        /\ Lower(SubSeq(text, i, i + Len(term) - 1)) = Lower(term)
        /\ i = 1 \/ ~IsWordChar(text[i - 1])
        /\ i + Len(term) = Len(text) + 1 \/ ~IsWordChar(text[i + Len(term)])

\* extract_snippet(text) for a text of at most 80 characters: the window of
\* 80 characters on either side of the first key term covers the whole text,
\* and without a key term the text is followed by "...".
extract_snippet(text) ==
    IF IsFalsy(text) THEN EMPTY
    ELSE IF \E k \in DOMAIN KEY_TERMS : SearchWord(KEY_TERMS[k], text)
    THEN Strip(text)
    ELSE Strip(text) \o <<".", ".", ".">>

\* The texts the fetcher extracts from a page.
FetchedTexts == {TITLE_SCENARIO_A}

\* sha1(content).hexdigest(): a value that stands for the digest of content
HashOf(content) == <<"sha1:">> \o content

\* What get_fulltext does for one row: it raises, it returns ("", "", ""),
\* it returns ("", "unreachable", None), or it returns an extracted text with
\* its source and digest.
FetchOutcomes ==
    {[kind |-> "raises", fulltext |-> EMPTY, source |-> "", hash |-> EMPTY],
     [kind |-> "returns", fulltext |-> EMPTY, source |-> "", hash |-> EMPTY],
     [kind |-> "returns", fulltext |-> EMPTY, source |-> "unreachable",
      hash |-> None]}
    \cup {[kind |-> "returns", fulltext |-> t, source |-> "article_url",
           hash |-> HashOf(t)] : t \in FetchedTexts}

\* The classifier of the tracker (SPACY_CLASSIFY is False) on each fetched
\* text under each registry: classify_usage and extract_snippet.
UsageOf ==
    [kw \in Registries |->
        [t \in FetchedTexts |->
            [classification |->
                 _classify_with_regex(t, _compile_regex_patterns(kw)),
             snippet |-> extract_snippet(t)]]]

\* Lines 457-470: the columns _analyze_fulltext adds, with their defaults.
FulltextDefaults ==
    [fulltext |-> EMPTY, fulltext_source |-> "", content_hash |-> EMPTY,
     uses_compendium |-> 0, classification_method |-> "", evidence |-> <<>>,
     snippet |-> EMPTY]

\* Lines 474-505 for one row: an exception leaves the row as it is; without
\* a text the row is marked 'none'; otherwise the classification is stored.
AnalyzedRow(r, o, kw) ==
    IF o.kind = "raises" THEN FulltextDefaults @@ r
    ELSE IF IsFalsy(o.fulltext)
    THEN [FulltextDefaults EXCEPT !.fulltext_source = o.source,
                                  !.content_hash = o.hash,
                                  !.classification_method = "none"] @@ r
    ELSE LET u == UsageOf[kw][o.fulltext]
         IN  [fulltext |-> o.fulltext, fulltext_source |-> o.source,
              content_hash |-> o.hash,
              uses_compendium |-> u.classification.uses_compendium,
              classification_method |-> u.classification.method,
              evidence |-> u.classification.evidence,
              snippet |-> u.snippet] @@ r

\* _analyze_fulltext(merged_df), run when skip_fulltext is off: every row is
\* fetched and classified inside its own try block.
AnalyzeFulltext ==
    /\ pc = "merged"
    /\ ~skip_fulltext
    /\ \E outcome \in [DOMAIN merged_df -> FetchOutcomes] :
          merged_df' = [p \in DOMAIN merged_df |->
                           AnalyzedRow(merged_df[p], outcome[p], keywords)]
    /\ pc' = "analyzed"
    /\ UNCHANGED <<keywords, search_results, all_citations, row, stage2_score,
                   score_flags, prev_score, prev_flags, restVars>>

\* standard_columns of CSVReporter._standardize_columns
STANDARD_COLUMNS ==
    {"title", "authors", "author_string", "journal", "year", "doi", "pmid",
     "abstract", "url", "source", "match_term", "uses_compendium",
     "classification_method", "evidence", "snippet"}

\* _standardize_columns(df): the standard columns only, None where the frame
\* has no such column; year through to_numeric; uses_compendium as an
\* integer with 0 for a missing value.
_standardize_columns(df) ==
    [p \in DOMAIN df |->
        [c \in STANDARD_COLUMNS |->
            IF c = "year" THEN to_numeric(df[p].year)
            ELSE IF c = "uses_compendium"
            THEN (IF c \in Columns(df[p]) THEN df[p][c] ELSE 0)
            ELSE IF c \in Columns(df[p]) THEN df[p][c]
            ELSE None]]

\* df.empty
IsEmptyFrame(df) == Len(df) = 0

\* generate_all_hits_csv(df): nothing is written for an empty frame.
generate_all_hits_csv(df) ==
    IF IsEmptyFrame(df) THEN {}
    ELSE {OutputFile("all_hits.csv", _standardize_columns(df))}

\* generate_used_compendium_csv(df): nothing is written for an empty frame,
\* for a frame without the uses_compendium column, or when no row has
\* uses_compendium = 1.
generate_used_compendium_csv(df) ==
    IF IsEmptyFrame(df) THEN {}
    ELSE IF "uses_compendium" \notin Columns(df[1]) THEN {}
    ELSE LET used_df ==
                 SelectRows(df, {p \in DOMAIN df : df[p].uses_compendium = 1})
         IN  IF IsEmptyFrame(used_df) THEN {}
             ELSE {OutputFile("used_compendium.csv",
                              _standardize_columns(used_df))}

\* HTMLReporter.generate_report(df): nothing is written for an empty frame;
\* otherwise report.html is rendered from the frame.
generate_report(df) ==
    IF IsEmptyFrame(df) THEN {} ELSE {OutputFile("report.html", df)}

\* Mutation of ReadyForReports: the reports are generated only after a
\* full-text stage.
ReadyForReports_OnlyAfterFulltext(at, skip) == at = "analyzed"

\* run(), lines 118-122: _generate_reports is called after the merge when
\* skip_fulltext is set and after the full-text stage otherwise.
ReadyForReports(at, skip) == (at = "merged" /\ skip) \/ at = "analyzed"

\* _generate_reports(merged_df)
GenerateReports ==
    /\ ReadyForReports(pc, skip_fulltext)
    /\ reports' = reports \cup generate_all_hits_csv(merged_df)
                          \cup generate_used_compendium_csv(merged_df)
                          \cup generate_report(merged_df)
    /\ pc' = "done"
    /\ UNCHANGED <<keywords, search_results, all_citations, merged_df, row,
                   stage2_score, score_flags, prev_score, prev_flags,
                   yaml_source, skip_fulltext, classifier, fulltext,
                   classification, raw,
                   cache, fetched>>

\* run(): collect from every source, merge and deduplicate, analyze the full
\* texts unless that is skipped, generate the reports.
Next ==
    \/ CollectorRaises
    \/ CollectorReturnsNothing
    \/ CollectorReturnsRows
    \/ MergeEmpty
    \/ MergeSort
    \/ DedupDoi
    \/ DedupTitle
    \/ AnalyzeFulltext
    \/ GenerateReports

Spec == Init /\ [][Next]_vars

\* run() is one thread of control and every call it makes ends: a collector's
\* turn ends (search() returns or raises; at a turn CollectorRaises is
\* enabled exactly when the turn is pending, and any of the three outcomes
\* ends the turn, so weak fairness on it says only that no turn lasts
\* forever), and the merge, the full-text stage and the report generation
\* are taken when control reaches them.
SpecLive ==
    /\ Spec
    /\ WF_vars(CollectorRaises)
    /\ WF_vars(MergeEmpty \/ MergeSort \/ DedupDoi \/ DedupTitle)
    /\ WF_vars(AnalyzeFulltext)
    /\ WF_vars(GenerateReports)

-----------------------------------------------------------------------------
(* Failure isolation per source *)

\* The rows of a returned frame whose score is at or above the threshold.
ExpectedKept(df) ==
    SelectRows(df, {p \in DOMAIN df : df[p].stage2_score >= RELEVANCE_THRESHOLD})

\* C14: a source whose collector raised contributes no record; every
\* collector is run whatever the earlier ones did; a collector's turn changes
\* no other source's frame; and what a source contributes is determined by
\* what its own collector returned, whether or not another source failed.
Thm_C14_FailureIsolation ==
    /\ [](\A k \in DOMAIN search_results :
             LET res == search_results[k]
             IN  /\ res.name = CollectorNames[k]
                 /\ res.outcome = "raised" => all_citations[res.name] = <<>>
                 /\ res.outcome = "rows" =>
                       all_citations[res.name] = ExpectedKept(res.df))
    /\ [](pc # "collect" /\ pc # "config_error" =>
             Len(search_results) = Len(CollectorNames))
    /\ [][pc = "collect" =>
             /\ Len(search_results') = Len(search_results) + 1
             /\ \A s \in Sources :
                   s # CollectorNames[Len(search_results) + 1] =>
                       all_citations'[s] = all_citations[s]]_vars

\* pubmed returned a record that was retained, then openalex raised, then
\* citations returned a record that was retained: the run goes on to merge
\* with pubmed's and citations' records.
Witness_C14 ==
    /\ pc = "merge"
    /\ search_results[1].outcome = "rows"
    /\ search_results[2].outcome = "raised"
    /\ search_results[3].outcome = "rows"
    /\ all_citations["pubmed"] # <<>>
    /\ all_citations["openalex"] = <<>>
    /\ all_citations["citations"] # <<>>

-----------------------------------------------------------------------------
(* The run reaches report generation *)

\* C15: with a loaded registry every run generates its reports, whatever the
\* sources and the full-text fetches do: failing, returning nothing, having
\* every record pruned.  The reports come after the merge when the full-text
\* stage is skipped and after the full-text stage otherwise, and by then
\* every collector has had its turn.
Thm_C15_RunReachesReports ==
    /\ <>(pc = "done")
    /\ [](pc = "analyzed" => ~skip_fulltext)
    /\ [](pc = "done" => Len(search_results) = Len(CollectorNames))
    /\ [][pc' = "done" =>
             pc = (IF skip_fulltext THEN "merged" ELSE "analyzed")]_vars

\* The reports were generated in a run in which pubmed raised, every record
\* of openalex was pruned, and the full-text fetch of the one record that
\* citations contributed raised.
Witness_C15 ==
    /\ pc = "done"
    /\ ~skip_fulltext
    /\ search_results[1].outcome = "raised"
    /\ search_results[2].outcome = "rows"
    /\ all_citations["openalex"] = <<>>
    /\ all_citations["citations"] # <<>>
    /\ Len(merged_df) = 1
    /\ merged_df[1].classification_method = ""
    /\ merged_df[1].content_hash = EMPTY

-----------------------------------------------------------------------------
(* Output of a run without citations *)

\* The names of the files in the output directory.
FilesWritten == {f.file : f \in reports}

\* C16: a run that found no citation from any source still writes its
\* report files: once the reports are generated over an empty merged
\* collection, all_hits.csv and report.html exist.
Claim_C16_EmptyRunWritesReports ==
    (pc = "done" /\ merged_df = <<>>) =>
        {"all_hits.csv", "report.html"} \subseteq FilesWritten

-----------------------------------------------------------------------------
(* Derived columns of the output *)

\* The derived columns under the names the code gives them: relevance score,
\* signal flags, uses_dataset, classification method, evidence, snippet,
\* content hash.
DerivedColumns ==
    {"stage2_score", "score_flags", "uses_compendium",
     "classification_method", "evidence", "snippet", "content_hash"}

\* The CSV reports of CSVReporter among the files written.
CsvReports == {f \in reports : f.file \in {"all_hits.csv", "used_compendium.csv"}}

\* C18: every record handed to report generation and every row of an emitted
\* CSV report has all the derived columns, whether the full-text stage ran or
\* was skipped.
Claim_C18_DerivedColumnsPresent ==
    /\ ReadyForReports(pc, skip_fulltext) =>
          \A p \in DOMAIN merged_df : DerivedColumns \subseteq Columns(merged_df[p])
    /\ \A f \in CsvReports :
          \A p \in DOMAIN f.rows : DerivedColumns \subseteq Columns(f.rows[p])

-----------------------------------------------------------------------------
(* Startup: KeywordLoader and CompendiumTracker.__init__ *)

\* A registry file whose mapping gives one category a value that is no list
\* of strings: a null, a number, a string, or a list holding a number.
BadCategory(category, type, text) ==
    [kind |-> "bad_category",
     value |-> [category |-> category, type |-> type, text |-> text]]

\* The keyword files: missing; not parseable as YAML; parsed to something
\* that is no mapping (an empty document gives None, a top-level sequence
\* gives a list); a mapping with a category of the wrong type; a mapping of
\* categories to lists of strings.
YamlSources ==
    {[kind |-> "missing", value |-> None],
     [kind |-> "unparseable", value |-> None],
     [kind |-> "not_mapping", value |-> None],
     [kind |-> "not_mapping", value |-> <<TERM_COMPENDIUM>>],
     BadCategory("canonical_terms", "int", EMPTY),
     BadCategory("neg_domain", "list_of_int", EMPTY),
     BadCategory("exact_urls", "none", EMPTY),
     BadCategory("neg_domain", "str", TERM_DELIVERY)}
    \cup {[kind |-> "mapping", value |-> kw] : kw \in Registries}

\* _load_yaml: open() or yaml.safe_load raised; the error is logged and
\* raised again.
LoadRaises(src) == src.kind \in {"missing", "unparseable"}

\* self.keywords after _load_yaml returned: whatever yaml.safe_load gave.  A
\* category holding a string is kept as the code reads it, character by
\* character.
Loaded(src) ==
    IF src.kind = "bad_category" /\ src.value.type = "str"
    THEN [c \in {src.value.category} |-> Chars(src.value.text)]
    ELSE src.value

\* UsageClassifier.__init__ -> _compile_regex_patterns: self.keywords.get
\* needs a mapping (AttributeError otherwise); a null or a number in place of
\* the patterns or of the URLs cannot be iterated, and a number among them
\* cannot be compiled or escaped (TypeError, which "except re.error" does not
\* catch).
ClassifierInitRaises(src) ==
    \/ src.kind = "not_mapping"
    \/ /\ src.kind = "bad_category"
       /\ src.value.category \in {"regex_usage_patterns", "exact_urls", "pdf_urls"}
       /\ src.value.type \in {"none", "int", "list_of_int"}

\* get_all_search_terms (line 282 of the tracker, outside the try block):
\* self.keywords.get needs a mapping, and list.extend needs an iterable.
SearchTermsRaise(src) ==
    \/ src.kind = "not_mapping"
    \/ /\ src.kind = "bad_category"
       /\ src.value.category \in SearchCategories
       /\ src.value.type \in {"none", "int"}

\* CompendiumTracker.__init__: the registry is loaded; unless the full-text
\* stage is skipped the usage classifier is built from it.
Construct ==
    /\ pc = "startup"
    /\ IF LoadRaises(yaml_source)
       THEN /\ pc' = "config_error"
            /\ UNCHANGED <<keywords, classifier>>
       ELSE /\ keywords' = Loaded(yaml_source)
            /\ IF skip_fulltext
               THEN pc' = "constructed" /\ UNCHANGED classifier
               ELSE IF ClassifierInitRaises(yaml_source)
               THEN pc' = "init_failed" /\ UNCHANGED classifier
               ELSE /\ pc' = "constructed"
                    /\ classifier' =
                          [DefaultClassifier EXCEPT
                              !.regex_patterns =
                                  _compile_regex_patterns(Loaded(yaml_source))]
    /\ UNCHANGED <<search_results, all_citations, merged_df, row,
                   stage2_score, score_flags, prev_score, prev_flags,
                   yaml_source, skip_fulltext, fulltext, classification,
                   reports, raw,
                   cache, fetched>>

\* run() -> _collect_citations, line 282: the search terms are read from the
\* registry before the loop over the collectors and outside its try block.
GetSearchTerms ==
    /\ pc = "constructed"
    /\ pc' = IF SearchTermsRaise(yaml_source) THEN "crashed" ELSE "collect"
    /\ UNCHANGED <<keywords, search_results, all_citations, merged_df, row,
                   stage2_score, score_flags, prev_score, prev_flags,
                   restVars>>

\* The tracker before construction: a keyword file and the skip_fulltext
\* argument.
InitStartup ==
    /\ pc = "startup"
    /\ yaml_source \in YamlSources
    /\ skip_fulltext \in BOOLEAN
    /\ keywords = None
    /\ search_results = <<>>
    /\ all_citations = [s \in Sources |-> <<>>]
    /\ merged_df = <<>>
    /\ row = RawRow(0, EMPTY, EMPTY, EMPTY, EMPTY, YearNone, None, EMPTY)
    /\ stage2_score = 0
    /\ score_flags = <<>>
    /\ prev_score = 0
    /\ prev_flags = <<>>
    /\ classifier = DefaultClassifier
    /\ fulltext = EMPTY
    /\ classification = NoClassification
    /\ reports = {}
    /\ raw = [shape |-> "none"]
    /\ cache = EmptyCache
    /\ fetched = NotFetched

\* Construction, then run() up to the end of the collection.
NextStartup ==
    \/ Construct
    \/ GetSearchTerms
    \/ CollectorRaises
    \/ CollectorReturnsNothing
    \/ CollectorReturnsRows
    \/ CollectorScoringRaises

SpecStartup == InitStartup /\ [][NextStartup]_vars

\* The keyword file is missing or malformed: unreadable, unparseable, or no
\* mapping of category names to lists of strings.
Malformed(src) == src.kind # "mapping"

\* A collector's search() was called.
CollectorInvoked == search_results # <<>>

\* C17: with a missing or malformed keyword file the program fails at
\* startup, before run(), and no collector is invoked; and a registry that
\* was loaded never makes the construction of the classifier, the reading of
\* the search terms or the scoring of a frame fail.
Claim_C17_MalformedRegistryFailsAtStartup ==
    /\ Malformed(yaml_source) =>
          /\ pc \in {"startup", "config_error"}
          /\ ~CollectorInvoked
    /\ pc \notin {"startup", "config_error"} =>
          /\ pc \notin {"init_failed", "crashed"}
          /\ \A k \in DOMAIN search_results :
                search_results[k].outcome # "scoring_raised"

-----------------------------------------------------------------------------
(* The collectors' normalization of one raw record *)

\* A value of a raw record: a missing key, a JSON null, a string, an integer,
\* or a date object (n is its year).
PyVal(tag, str, n) == [tag |-> tag, s |-> str, n |-> n]
PyAbsent == PyVal("absent", EMPTY, 0)
PyNull == PyVal("null", EMPTY, 0)
PyStr(str) == PyVal("str", str, 0)
PyInt(n) == PyVal("int", EMPTY, n)
PyDate(y) == PyVal("date", EMPTY, y)

\* if v: the truth value of a raw value (dict.get gives None for a missing
\* key)
Truthy(v) ==
    CASE v.tag = "str" -> v.s # EMPTY
      [] v.tag = "int" -> v.n # 0
      [] v.tag = "date" -> TRUE
      [] OTHER -> FALSE

\* A year cell holding a string that was passed through.
YearStr(str) == [tag |-> "str", n |-> 0, s |-> str]

Digits == <<"0", "1", "2", "3", "4", "5", "6", "7", "8", "9">>
DigitVal(c) == (CHOOSE d \in DOMAIN Digits : Digits[d] = c) - 1

\* int(str) of a string of digits
RECURSIVE ToInt(_)
ToInt(str) ==
    IF str = EMPTY THEN 0
    ELSE 10 * ToInt(SubSeq(str, 1, Len(str) - 1)) + DigitVal(str[Len(str)])

\* str[:4]
Prefix4(str) == SubSeq(str, 1, IF Len(str) < 4 THEN Len(str) ELSE 4)

\* re.match(r"\d{4}", str)
MatchFourDigits(str) == Len(str) >= 4 /\ IsDigit(SubSeq(str, 1, 4))

\* PubMedCollector.normalize_data, the year: the year of a date object, or
\* the four leading digits of a string.
PubMedYear(pub_date) ==
    IF ~Truthy(pub_date) THEN YearNone
    ELSE IF pub_date.tag = "date" THEN YearInt(pub_date.n)
    ELSE IF pub_date.tag = "str" /\ MatchFourDigits(pub_date.s)
    THEN YearInt(ToInt(SubSeq(pub_date.s, 1, 4)))
    ELSE YearNone

\* article.get('doi', '').lower() if article.get('doi') else None, the same
\* line in the PubMed and the OpenAlex collector.
LowercasedDoi(doi) == IF Truthy(doi) THEN Lower(doi.s) ELSE None

\* OpenAlexCollector.normalize_data, the year: work['publication_year'] as
\* it is when the key is there.
OpenAlexYear(publication_year) ==
    CASE publication_year.tag = "int" -> YearInt(publication_year.n)
      [] publication_year.tag = "str" -> YearStr(publication_year.s)
      [] OTHER -> YearNone

\* CitationCollector._get_summaries, the DOI: "" unless articleids has an
\* entry of idtype doi, and then its value as it is.
CitationDoi(value) ==
    CASE value.tag = "absent" -> EMPTY
      [] value.tag = "null" -> None
      [] OTHER -> value.s

\* CitationCollector._get_summaries, the year: the first four characters of
\* pubdate when they are all digits.
CitationYear(pubdate) ==
    IF Truthy(pubdate) /\ IsDigit(Prefix4(pubdate.s))
    THEN YearInt(ToInt(Prefix4(pubdate.s)))
    ELSE YearNone

DOI_SPACED == <<" ">> \o DOI_UPPER \o <<" ">>
DATE_2020 == <<"2", "0", "2", "0", " ", "J", "a", "n">>
DATE_ZERO == <<"0", "0", "0", "0">>
DATE_ND == <<"n", ".", "d", ".">>
DATE_SHORT == <<"2", "0", "2">>

\* The raw DOI values and, per source, the raw dates: publication_date of
\* PyMed (a date or a string), publication_year of OpenAlex, pubdate of
\* E-utilities.
RawDois ==
    {PyAbsent, PyNull, PyStr(EMPTY), PyStr(DOI_UPPER), PyStr(DOI_LOWER),
     PyStr(DOI_SPACED)}
RawDates(shape) ==
    CASE shape = "pubmed" ->
            {PyAbsent, PyNull, PyStr(EMPTY), PyDate(2019), PyStr(DATE_2020),
             PyStr(DATE_ZERO), PyStr(DATE_ND), PyStr(DATE_SHORT)}
      [] shape = "openalex" ->
            {PyAbsent, PyNull, PyInt(2020), PyStr(DATE_2020), PyStr(DATE_ND)}
      [] shape = "citations" ->
            {PyAbsent, PyNull, PyStr(EMPTY), PyStr(DATE_2020),
             PyStr(DATE_ZERO), PyStr(DATE_ND), PyStr(DATE_SHORT)}

RawRecord(shape, doi, date) == [shape |-> shape, doi |-> doi, date |-> date]

\* One raw record of one source, before its collector normalizes it.
InitNormalize ==
    /\ pc = "raw"
    /\ \E shape \in Sources :
          \E doi \in RawDois, date \in RawDates(shape) :
             raw = RawRecord(shape, doi, date)
    /\ keywords \in {RegistryFull}
    /\ row = RawRow(0, EMPTY, EMPTY, EMPTY, EMPTY, YearNone, None, EMPTY)
    /\ search_results = <<>>
    /\ all_citations = [s \in Sources |-> <<>>]
    /\ merged_df = <<>>
    /\ stage2_score = 0
    /\ score_flags = <<>>
    /\ prev_score = 0
    /\ prev_flags = <<>>
    /\ yaml_source = [kind |-> "mapping", value |-> keywords]
    /\ skip_fulltext = TRUE
    /\ classifier = DefaultClassifier
    /\ fulltext = EMPTY
    /\ classification = NoClassification
    /\ reports = {}
    /\ cache = EmptyCache
    /\ fetched = NotFetched

\* PubMedCollector.normalize_data on one article
NormalizePubMed ==
    /\ pc = "raw"
    /\ raw.shape = "pubmed"
    /\ row' = [row EXCEPT !.year = PubMedYear(raw.date),
                          !.doi = LowercasedDoi(raw.doi)]
    /\ pc' = "normalized"
    /\ UNCHANGED <<keywords, search_results, all_citations, merged_df,
                   stage2_score, score_flags, prev_score, prev_flags,
                   restVars>>

\* OpenAlexCollector.normalize_data on one work
NormalizeOpenAlex ==
    /\ pc = "raw"
    /\ raw.shape = "openalex"
    /\ row' = [row EXCEPT !.year = OpenAlexYear(raw.date),
                          !.doi = LowercasedDoi(raw.doi)]
    /\ pc' = "normalized"
    /\ UNCHANGED <<keywords, search_results, all_citations, merged_df,
                   stage2_score, score_flags, prev_score, prev_flags,
                   restVars>>

\* CitationCollector._get_summaries on one summary, then the year filter of
\* search(): the record is returned only when its year is a number not
\* below CUTOFF_YEAR.
NormalizeCitation ==
    /\ pc = "raw"
    /\ raw.shape = "citations"
    /\ row' = [row EXCEPT !.year = CitationYear(raw.date),
                          !.doi = CitationDoi(raw.doi)]
    /\ pc' = IF row'.year.tag = "int" /\ row'.year.n >= CUTOFF_YEAR
             THEN "normalized"
             ELSE "filtered"
    /\ UNCHANGED <<keywords, search_results, all_citations, merged_df,
                   stage2_score, score_flags, prev_score, prev_flags,
                   restVars>>

NextNormalize ==
    \/ NormalizePubMed
    \/ NormalizeOpenAlex
    \/ NormalizeCitation

SpecNormalize == InitNormalize /\ [][NextNormalize]_vars

-----------------------------------------------------------------------------
(* DOI normalization *)

Whitespace == {" ", "\t", "\n", "\r"}

\* str == str.strip()
IsStripped(str) ==
    str = EMPTY \/ (str[1] \notin Whitespace /\ str[Len(str)] \notin Whitespace)

\* C19: whichever collector normalized the record and however the raw DOI
\* was spelled, the record's doi is absent or is lowercase with no
\* whitespace around it; and a raw record without a DOI gives an absent doi,
\* not an empty string.
Claim_C19_DoiLowercaseStrippedOrAbsent ==
    pc = "normalized" =>
       /\ row.doi # None => (row.doi = Lower(row.doi) /\ IsStripped(row.doi))
       /\ raw.doi.tag \in {"absent", "null"} => row.doi = None

-----------------------------------------------------------------------------
(* Year normalization *)

\* A raw date from which a year can be read: an integer, a date object, or a
\* string that starts with four digits.
Parseable(date) ==
    \/ date.tag \in {"int", "date"}
    \/ date.tag = "str" /\ MatchFourDigits(date.s)

\* The year a parseable raw date stands for.
YearOfRaw(date) ==
    IF date.tag = "str" THEN ToInt(SubSeq(date.s, 1, 4)) ELSE date.n

\* C20: an integer field, a date object and a string with four leading
\* digits normalize to that year as an integer; every other raw value, and a
\* missing one, normalizes to an absent year; the normalized year is never
\* 0 and never a string.
Claim_C20_YearIntegerOrAbsent ==
    pc = "normalized" =>
       /\ Parseable(raw.date) => row.year = YearInt(YearOfRaw(raw.date))
       /\ ~Parseable(raw.date) => row.year = YearNone
       /\ row.year.tag # "str"
       /\ ~(row.year.tag = "int" /\ row.year.n = 0)

-----------------------------------------------------------------------------
(* normalize_data over a batch of raw records *)

\* One item of raw_data: a mapping with a title and its optional fields
\* (authors, journal or host_venue, date, doi), or an item that is no mapping
\* at all.  optional says whether the optional keys are there with values,
\* are missing, or are there with a JSON null.
RawItem(mapping, title, optional) ==
    [mapping |-> mapping, title |-> title, optional |-> optional]

RawItems ==
    {RawItem(FALSE, PyAbsent, "missing")}
    \cup {RawItem(TRUE, t, o) :
             t \in {PyAbsent, PyNull, PyStr(TITLE_EDITORIAL)},
             o \in {"present", "missing", "null"}}

RawBatches == UNION {[1..n -> RawItems] : n \in 1..MaxBatch}

\* dict.get(key, '') on a raw value: the default for a missing key, None for
\* a null, the value otherwise.
GetOrEmpty(v) ==
    CASE v.tag = "absent" -> EMPTY
      [] v.tag = "null" -> None
      [] OTHER -> v.s

\* Whether the body of the PubMed loop raises on the item: article.get needs
\* a mapping; "authors or []", "if pub_date" and "if article.get('doi')"
\* guard every null.
PubMedItemRaises(item) == ~item.mapping

\* Whether the body of the OpenAlex loop raises on the item: work.get needs a
\* mapping, and work.get('host_venue', {}).get(...) needs host_venue not to
\* be null.
OpenAlexItemRaises(item) == ~item.mapping \/ item.optional = "null"

\* The entry appended for the item at position k of raw_data.
Entry(k, item) == [pos |-> k, title |-> GetOrEmpty(item.title)]

\* The locals of normalize_data: raw_data, the position of the loop and the
\* list normalized.
NormalizeLocals(shape, batch, k, normalized) ==
    [shape |-> shape, raw_data |-> batch, k |-> k, normalized |-> normalized]

\* normalize_data is called with a batch of raw records.
InitBatch ==
    /\ pc = "normalize"
    /\ \E shape \in {"pubmed", "openalex"}, batch \in RawBatches :
          raw = NormalizeLocals(shape, batch, 1, <<>>)
    /\ keywords \in {RegistryFull}
    /\ row = RawRow(0, EMPTY, EMPTY, EMPTY, EMPTY, YearNone, None, EMPTY)
    /\ search_results = <<>>
    /\ all_citations = [s \in Sources |-> <<>>]
    /\ merged_df = <<>>
    /\ stage2_score = 0
    /\ score_flags = <<>>
    /\ prev_score = 0
    /\ prev_flags = <<>>
    /\ yaml_source = [kind |-> "mapping", value |-> keywords]
    /\ skip_fulltext = TRUE
    /\ classifier = DefaultClassifier
    /\ fulltext = EMPTY
    /\ classification = NoClassification
    /\ reports = {}
    /\ cache = EmptyCache
    /\ fetched = NotFetched

\* One turn of "for article in raw_data" in PubMedCollector.normalize_data:
\* the entry is appended, or the except clause logs and continues.
NormalizeArticle ==
    /\ pc = "normalize"
    /\ raw.shape = "pubmed"
    /\ raw.k <= Len(raw.raw_data)
    /\ raw' = [raw EXCEPT
                 !.k = @ + 1,
                 !.normalized =
                     IF PubMedItemRaises(raw.raw_data[raw.k])
                     THEN @
                     ELSE Append(@, Entry(raw.k, raw.raw_data[raw.k]))]
    /\ UNCHANGED <<pc, keywords, search_results, all_citations, merged_df,
                   row, stage2_score, score_flags, prev_score, prev_flags,
                   yaml_source, skip_fulltext, classifier, fulltext,
                   classification, reports, cache, fetched>>

\* One turn of "for work in raw_data" in OpenAlexCollector.normalize_data.
NormalizeWork ==
    /\ pc = "normalize"
    /\ raw.shape = "openalex"
    /\ raw.k <= Len(raw.raw_data)
    /\ raw' = [raw EXCEPT
                 !.k = @ + 1,
                 !.normalized =
                     IF OpenAlexItemRaises(raw.raw_data[raw.k])
                     THEN @
                     ELSE Append(@, Entry(raw.k, raw.raw_data[raw.k]))]
    /\ UNCHANGED <<pc, keywords, search_results, all_citations, merged_df,
                   row, stage2_score, score_flags, prev_score, prev_flags,
                   yaml_source, skip_fulltext, classifier, fulltext,
                   classification, reports, cache, fetched>>

\* return pd.DataFrame(normalized)
ReturnNormalized ==
    /\ pc = "normalize"
    /\ raw.k > Len(raw.raw_data)
    /\ pc' = "normalized"
    /\ UNCHANGED <<keywords, search_results, all_citations, merged_df, row,
                   stage2_score, score_flags, prev_score, prev_flags,
                   restVars>>

NextBatch ==
    \/ NormalizeArticle
    \/ NormalizeWork
    \/ ReturnNormalized

SpecBatch == InitBatch /\ [][NextBatch]_vars

\* The raw item can yield a title: it is a mapping whose title is a string.
YieldsTitle(item) == item.mapping /\ item.title.tag = "str"

\* The positions of raw_data whose record is in the returned frame.
KeptPositions == {raw.normalized[i].pos : i \in DOMAIN raw.normalized}

\* C21: of a batch handed to normalize_data, the returned frame holds
\* exactly the records that can yield a title: a record without one is
\* dropped, and a record with one is kept whatever its optional fields are,
\* missing and null included.
Claim_C21_TitlelessDroppedSiblingsKept ==
    pc = "normalized" =>
       \A k \in DOMAIN raw.raw_data :
          k \in KeptPositions <=> YieldsTitle(raw.raw_data[k])

-----------------------------------------------------------------------------
(* Full-text unavailability *)

\* C22: after the full-text stage every record whose full text could not be
\* obtained (no URL, a failed download, a failed extraction, an exception in
\* get_fulltext) has fulltext "", uses_compendium 0 and classification
\* method "none", whatever happened to the records before it.
Claim_C22_UnavailableFulltextIsNone ==
    pc \in {"analyzed", "done"} /\ ~skip_fulltext =>
       \A p \in DOMAIN merged_df :
          merged_df[p].fulltext = EMPTY =>
             /\ merged_df[p].uses_compendium = 0
             /\ merged_df[p].classification_method = "none"

-----------------------------------------------------------------------------
(* FulltextFetcher.get_fulltext and its cache *)

\* hashlib.md5(...).hexdigest() and hashlib.sha256(...).hexdigest(): values
\* that stand for the digests (HashOf stands for sha1).
Md5Of(str) == <<"md5:">> \o str
Sha256Of(content) == <<"sha256:">> \o content

\* pd.notna(row.get('doi'))
NotNa(v) == v # None

\* _get_cache_path(doi): the file named by the md5 of doi.strip().lower()
_get_cache_path(doi) == Md5Of(Lower(Strip(doi))) \o <<".txt">>

\* _hash_content(content)
_hash_content(content) == Sha256Of(content)

\* cache_path.exists(), and the files of the cache directory
Exists(files, path) == path \in DOMAIN files
WriteFile(files, path, content) == (path :> content) @@ files

PAGE_ONE == <<"o", "n", "e">>
PAGE_TWO == <<"t", "w", "o">>
PDF_BLOB == <<"%", "P", "D", "F">>

\* The texts trafilatura extracts from the pages, and the doi cells of the
\* rows handed to get_fulltext.
ExtractedTexts == {PAGE_ONE, PAGE_TWO}
FetchDois == {None, EMPTY, DOI_LOWER, DOI_SPACED}

\* The tuple get_fulltext returns.
FetchResult(text, source, content_hash) ==
    [fulltext |-> text, source |-> source, content_hash |-> content_hash]

\* Lines 110-228 up to the extraction, for a row whose text is not cached:
\* what the URL lookup, the download and the extraction can come to.  No
\* URL, a failed extraction and an exception all end in ("", "", ""); a
\* PubMed landing page in ("", "pubmed_stub", ""); a failed download in
\* ("", "unreachable", None); a PDF in ("", "pdf", sha1 of the blob); a page
\* with text in that text, to be cached and returned.
WebOutcomes ==
    {[kind |-> "empty", download |-> d, content |-> EMPTY,
      result |-> FetchResult(EMPTY, "", EMPTY)] : d \in BOOLEAN}
    \cup {[kind |-> "empty", download |-> FALSE, content |-> EMPTY,
           result |-> FetchResult(EMPTY, "pubmed_stub", EMPTY)],
          [kind |-> "empty", download |-> TRUE, content |-> EMPTY,
           result |-> FetchResult(EMPTY, "unreachable", None)],
          [kind |-> "empty", download |-> TRUE, content |-> EMPTY,
           result |-> FetchResult(EMPTY, "pdf", HashOf(PDF_BLOB))]}
    \cup {[kind |-> "content", download |-> TRUE, content |-> t,
           result |-> FetchResult(t, "article_url", HashOf(t))] :
             t \in ExtractedTexts}

\* The state of the fetcher between calls, with what the calls so far have
\* returned.
FetcherIdle(results) ==
    [at |-> "idle", doi |-> None, download |-> FALSE, content |-> EMPTY,
     result |-> FetchResult(EMPTY, "", EMPTY), results |-> results]

\* A fetcher over a cache directory left by earlier runs: empty here.
InitFetch ==
    /\ pc = "fetch"
    /\ fetched = FetcherIdle(<<>>)
    /\ cache = EmptyCache
    /\ keywords \in {RegistryFull}
    /\ row = RawRow(0, EMPTY, EMPTY, EMPTY, EMPTY, YearNone, None, EMPTY)
    /\ search_results = <<>>
    /\ all_citations = [s \in Sources |-> <<>>]
    /\ merged_df = <<>>
    /\ stage2_score = 0
    /\ score_flags = <<>>
    /\ prev_score = 0
    /\ prev_flags = <<>>
    /\ yaml_source = [kind |-> "mapping", value |-> keywords]
    /\ skip_fulltext = FALSE
    /\ classifier = DefaultClassifier
    /\ fulltext = EMPTY
    /\ classification = NoClassification
    /\ reports = {}
    /\ raw = [shape |-> "none"]

\* What get_fulltext leaves alone.
FetchFrame ==
    UNCHANGED <<pc, keywords, search_results, all_citations, merged_df, row,
                stage2_score, score_flags, prev_score, prev_flags,
                yaml_source, skip_fulltext, classifier, fulltext,
                classification, reports, raw>>

\* get_fulltext(row) is called.
CallGetFulltext ==
    /\ fetched.at = "idle"
    /\ Len(fetched.results) < MaxCalls
    /\ \E doi \in FetchDois :
          fetched' = [fetched EXCEPT !.at = "called", !.doi = doi]
    /\ UNCHANGED cache
    /\ FetchFrame

\* Lines 103-108: the cached text of the DOI, when its file is there.
ReadCache ==
    /\ fetched.at = "called"
    /\ NotNa(fetched.doi)
    /\ Exists(cache, _get_cache_path(fetched.doi))
    /\ \E content \in {cache[_get_cache_path(fetched.doi)]} :
          fetched' = [fetched EXCEPT
                        !.at = "returned",
                        !.result = FetchResult(content, "cache",
                                               _hash_content(content))]
    /\ UNCHANGED cache
    /\ FetchFrame

\* Lines 110-209: nothing is cached for the row; a URL is looked up,
\* downloaded and its text extracted.
FetchFromWeb ==
    /\ fetched.at = "called"
    /\ ~(NotNa(fetched.doi) /\ Exists(cache, _get_cache_path(fetched.doi)))
    /\ \E o \in WebOutcomes :
          fetched' = [fetched EXCEPT
                        !.at = IF o.kind = "empty" THEN "returned"
                               ELSE IF NotNa(fetched.doi) THEN "extracted"
                               ELSE "returned",
                        !.download = o.download,
                        !.content = o.content,
                        !.result = o.result]
    /\ UNCHANGED cache
    /\ FetchFrame

\* Line 215, cache_path.write_text(content): open(path, 'w') creates the
\* file, or truncates it.
OpenCacheFile ==
    /\ fetched.at = "extracted"
    /\ cache' = WriteFile(cache, _get_cache_path(fetched.doi), EMPTY)
    /\ fetched' = [fetched EXCEPT !.at = "writing"]
    /\ FetchFrame

\* Line 215, continued: the text reaches the file in one or more writes.
WriteCacheFile ==
    /\ fetched.at = "writing"
    /\ \E path \in {_get_cache_path(fetched.doi)} :
          \E n \in (Len(cache[path]) + 1)..Len(fetched.content) :
             /\ cache' = WriteFile(cache, path, SubSeq(fetched.content, 1, n))
             /\ fetched' = [fetched EXCEPT
                              !.at = IF n = Len(fetched.content)
                                     THEN "returned" ELSE "writing"]
    /\ FetchFrame

\* The call is over: its tuple goes to the caller.
ReturnFulltext ==
    /\ fetched.at = "returned"
    /\ fetched' = FetcherIdle(Append(fetched.results,
                                     [doi |-> fetched.doi,
                                      download |-> fetched.download,
                                      result |-> fetched.result]))
    /\ UNCHANGED cache
    /\ FetchFrame

\* The process is interrupted inside get_fulltext (Ctrl-C, kill): the call
\* returns nothing, the files stay as they are, and a later run calls
\* get_fulltext over the same cache directory.
Interrupt ==
    /\ fetched.at \in {"called", "extracted", "writing"}
    /\ fetched' = FetcherIdle(fetched.results)
    /\ UNCHANGED cache
    /\ FetchFrame

NextFetch ==
    \/ CallGetFulltext
    \/ ReadCache
    \/ FetchFromWeb
    \/ OpenCacheFile
    \/ WriteCacheFile
    \/ ReturnFulltext
    \/ Interrupt

SpecFetch == InitFetch /\ [][NextFetch]_vars

-----------------------------------------------------------------------------
(* content_hash *)

\* C23: any two results of get_fulltext with the same non-empty fulltext
\* carry the same content_hash, fetched or read from the cache; and an empty
\* fulltext carries no digest of some other content.
Claim_C23_HashIsDigestOfFulltext ==
    /\ \A i, j \in DOMAIN fetched.results :
          LET a == fetched.results[i].result
              b == fetched.results[j].result
          IN  a.fulltext = b.fulltext /\ a.fulltext # EMPTY =>
                 a.content_hash = b.content_hash
    /\ \A i \in DOMAIN fetched.results :
          LET a == fetched.results[i].result
          IN  a.fulltext = EMPTY =>
                 a.content_hash \in {EMPTY, None, HashOf(EMPTY), Sha256Of(EMPTY)}

-----------------------------------------------------------------------------
(* Cache writes *)

\* C24: at every moment, and so for an interrupted run and for a reader that
\* looks while a text is being written, each file of the cache holds a
\* complete extracted text, and a text served from the cache is a complete
\* extracted text.
Claim_C24_CacheWriteAllOrNothing ==
    /\ \A path \in DOMAIN cache : cache[path] \in ExtractedTexts
    /\ \A i \in DOMAIN fetched.results :
          fetched.results[i].result.source = "cache" =>
             fetched.results[i].result.fulltext \in ExtractedTexts

-----------------------------------------------------------------------------
(* Cache round trip *)

\* The row has a DOI.
IsDoi(doi) == doi # None /\ Strip(doi) # EMPTY

\* The DOIs are the same up to letter case and surrounding whitespace.
SameDoiUpToCaseAndSpace(a, b) == IsDoi(a) /\ IsDoi(b) /\ Lower(Strip(a)) = Lower(Strip(b))

-----------------------------------------------------------------------------
(* Routing of the search terms to the collectors *)

\* CompendiumTracker.SEARCH_ROUTING
SEARCH_ROUTING ==
    [c \in SearchCategories |->
        [n \in {"pubmed", "openalex", "scholar"} |->
            IF c \in {"exact_urls", "pdf_urls"} THEN n = "scholar" ELSE TRUE]]

\* keywords.items() of a keyword file: the categories in the order of the
\* file, each with its list of terms.
Item(category, terms) == [category |-> category, terms |-> terms]

RoutedCategories ==
    {"exact_urls", "pdf_urls", "phrase_variants", "canonical_terms"}
RoutedTermLists ==
    {<<URL_COMPENDIUM>>, <<TERM_AHRQ_COMPENDIUM>>,
     <<URL_COMPENDIUM, TERM_AHRQ_COMPENDIUM>>}

\* Keyword files of two categories.
OrderedRegistries ==
    {<<Item(c1, t1), Item(c2, t2)>> :
        c1 \in RoutedCategories, c2 \in RoutedCategories,
        t1 \in RoutedTermLists, t2 \in RoutedTermLists} \
    {kw \in [1..2 -> [category : RoutedCategories, terms : RoutedTermLists]] :
        kw[1].category = kw[2].category}

\* self.keywords.get(category, []) on the items of the file
ItemsGet(items, category) ==
    IF \E i \in DOMAIN items : items[i].category = category
    THEN items[CHOOSE i \in DOMAIN items : items[i].category = category].terms
    ELSE <<>>

\* term in terms, for a list of terms
InList(term, terms) == \E i \in DOMAIN terms : terms[i] = term

\* get_all_search_terms(): urls, then phrases, then combos
get_all_search_terms(items) ==
    ItemsGet(items, "exact_urls") \o ItemsGet(items, "pdf_urls")
    \o ItemsGet(items, "phrase_variants") \o ItemsGet(items, "year_combos")
    \o ItemsGet(items, "ahrq_combos")
    \o ItemsGet(items, "funding_acknowledgment")

\* get_category_for_term(term): the first category of the file whose list
\* holds the term, "unknown" when there is none.
get_category_for_term(items, term) ==
    IF \E i \in DOMAIN items : InList(term, items[i].terms)
    THEN items[CHOOSE i \in DOMAIN items :
                 /\ InList(term, items[i].terms)
                 /\ \A j \in 1..(i - 1) : ~InList(term, items[j].terms)].category
    ELSE "unknown"

\* self.SEARCH_ROUTING.get(category, {}).get(name, True)
RoutedTo(category, name) ==
    IF category \in DOMAIN SEARCH_ROUTING
    THEN SEARCH_ROUTING[category][name]
    ELSE TRUE

\* Lines 292-298: the terms handed to the collector called name.
FilteredTerms(items, name) ==
    SelectSeq(get_all_search_terms(items),
              LAMBDA term : RoutedTo(get_category_for_term(items, term), name))

\* The tracker about to collect, with the keyword file it loaded.
InitRouting ==
    /\ pc = "collect"
    /\ keywords \in OrderedRegistries
    /\ search_results = <<>>
    /\ all_citations = [s \in Sources |-> <<>>]
    /\ merged_df = <<>>
    /\ row = RawRow(0, EMPTY, EMPTY, EMPTY, EMPTY, YearNone, None, EMPTY)
    /\ stage2_score = 0
    /\ score_flags = <<>>
    /\ prev_score = 0
    /\ prev_flags = <<>>
    /\ RestIdle

\* Lines 292-301: a term-driven collector is called with its filtered terms.
SearchWithTerms ==
    /\ pc = "collect"
    /\ CurrentCollector # "citations"
    /\ search_results' =
          Append(search_results,
                 [name |-> CurrentCollector,
                  terms |-> FilteredTerms(keywords, CurrentCollector)])
    /\ pc' = AfterCollector
    /\ UNCHANGED <<keywords, all_citations, merged_df, row, stage2_score,
                   score_flags, prev_score, prev_flags, restVars>>

\* Lines 289-291: collector.search() for the citation collector, without
\* terms.
SearchCitations ==
    /\ pc = "collect"
    /\ CurrentCollector = "citations"
    /\ search_results' =
          Append(search_results, [name |-> CurrentCollector, terms |-> None])
    /\ pc' = AfterCollector
    /\ UNCHANGED <<keywords, all_citations, merged_df, row, stage2_score,
                   score_flags, prev_score, prev_flags, restVars>>

NextRouting == SearchWithTerms \/ SearchCitations

SpecRouting == InitRouting /\ [][NextRouting]_vars

\* The term is listed under the category in the keyword file.
ListedUnder(items, term, category) == InList(term, ItemsGet(items, category))

\* C25: a term is passed to a term-driven collector only if the routing
\* table maps a category listing the term, and that collector, to true; a
\* term listed under exact_urls or pdf_urls is never passed to the PubMed or
\* OpenAlex collector, whatever else lists it; and the citation collector is
\* passed no terms.
Claim_C25_RoutingTableDecides ==
    \A k \in DOMAIN search_results :
       LET call == search_results[k]
       IN  IF call.name = "citations"
           THEN call.terms = None
           ELSE \A i \in DOMAIN call.terms :
                   /\ \E c \in DOMAIN SEARCH_ROUTING :
                         /\ ListedUnder(keywords, call.terms[i], c)
                         /\ SEARCH_ROUTING[c][call.name]
                   /\ ~ListedUnder(keywords, call.terms[i], "exact_urls")
                   /\ ~ListedUnder(keywords, call.terms[i], "pdf_urls")

-----------------------------------------------------------------------------
(* Prune before merge *)

\* The two records are duplicates for _merge_deduplicate: the same cell in
\* the doi column, or the same normalized title.
DuplicateCells(a, b) ==
    DoiCell(a) = DoiCell(b) \/ TitleNorm(a.title) = TitleNorm(b.title)

\* C26: once the run has merged, every record of the merged frame scores at
\* least the threshold and is one of the records that passed its source's
\* prune step; and a retained record that is missing from the merged frame
\* is the duplicate of another record that scores at least the threshold.
Thm_C26_PruneBeforeMerge ==
    pc \in {"merged", "analyzed", "done"} =>
       /\ \A p \in DOMAIN merged_df :
             /\ merged_df[p].stage2_score >= RELEVANCE_THRESHOLD
             /\ \E i \in DOMAIN Arrival :
                   /\ Arrival[i].index = merged_df[p].index
                   /\ Arrival[i].title = merged_df[p].title
                   /\ DoiCell(Arrival[i]) = merged_df[p].doi
                   /\ Arrival[i].year = merged_df[p].year
                   /\ Arrival[i].stage2_score = merged_df[p].stage2_score
       /\ \A i \in DOMAIN Arrival :
             Arrival[i].index \notin Kept =>
                \E j \in DOMAIN Arrival :
                   /\ j # i
                   /\ Arrival[j].stage2_score >= RELEVANCE_THRESHOLD
                   /\ DuplicateCells(Arrival[i], Arrival[j])

\* A collector returned a record that was pruned and shares its DOI with a
\* retained record of another source; the retained record is in the merged
\* frame.
Witness_C26 ==
    /\ pc = "merged"
    /\ Len(merged_df) >= 1
    /\ \E k \in DOMAIN search_results :
          /\ search_results[k].outcome = "rows"
          /\ \E p \in DOMAIN search_results[k].df :
                /\ search_results[k].df[p].stage2_score < RELEVANCE_THRESHOLD
                /\ search_results[k].df[p].doi # None
                /\ \E q \in DOMAIN merged_df :
                      merged_df[q].doi = DoiCell(search_results[k].df[p])


-----------------------------------------------------------------------------
(* _merge_deduplicate over chains of duplicates *)

\* The cells of the retained records: titles of two normalized forms, with
\* or without a DOI.
ChainDois == {None, DOI_LOWER}

ChainRows ==
    {WithScore(RawRow(0, t, EMPTY, EMPTY, EMPTY, y, d, EMPTY), RegistryFull) :
        t \in TitleVals, y \in YearVals, d \in ChainDois}

\* self.all_citations when _merge_deduplicate is called: up to MaxChain
\* retained records.
InitChain ==
    /\ pc = "merge"
    /\ keywords = RegistryFull
    /\ \E n \in 0..MaxChain :
         \E s \in [1..n -> ChainRows] :
            /\ all_citations = FramesOf(s)
            /\ search_results =
                  [i \in DOMAIN CollectorNames |->
                      SearchResult(CollectorNames[i],
                                   IF FramesOf(s)[CollectorNames[i]] = <<>>
                                   THEN "nothing" ELSE "rows",
                                   FramesOf(s)[CollectorNames[i]])]
    /\ merged_df = <<>>
    /\ row = RawRow(0, EMPTY, EMPTY, EMPTY, EMPTY, YearNone, None, EMPTY)
    /\ stage2_score = 0
    /\ score_flags = <<>>
    /\ prev_score = 0
    /\ prev_flags = <<>>
    /\ RestIdle

SpecChain == InitChain /\ [][NextMerge]_vars

\* The output rows are input rows: same label, same cells.
SubCollection ==
    /\ Len(merged_df) <= Len(Arrival)
    /\ \A p \in DOMAIN merged_df :
          \E i \in DOMAIN Arrival :
             /\ Arrival[i].index = merged_df[p].index
             /\ Arrival[i].title = merged_df[p].title
             /\ Arrival[i].year = merged_df[p].year
             /\ DoiCell(Arrival[i]) = merged_df[p].doi
    /\ \A p, q \in DOMAIN merged_df :
          merged_df[p].index = merged_df[q].index => p = q

\* The input record shares its doi cell or its normalized title with a row
\* of the output (two absent DOIs count as shared, as drop_duplicates has it).
Represented(r) ==
    \E p \in DOMAIN merged_df :
       \/ merged_df[p].doi = DoiCell(r)
       \/ merged_df[p].title_norm = TitleNorm(r.title)

\* C27: the merged output is a sub-collection of the concatenated input, and
\* every discarded input record shares its lowercased DOI or its normalized
\* title with some record present in the output, chains included.
Claim_C27_MergeLosesNoIdentity ==
    pc = "merged" =>
       /\ SubCollection
       /\ \A i \in DOMAIN Arrival :
             Arrival[i].index \notin Kept => Represented(Arrival[i])


-----------------------------------------------------------------------------
(* The range of the score and the prune condition *)

\* The categories config.py lists with a negative weight.
NegativeSignals == {"neg_geography", "neg_domain", "old_paper"}

\* C28: with the default weights every score _score_row returns lies between
\* -2.0 and 6.5 (-4 and 13 in units of 0.5), and a record falls below the
\* default threshold only if a negative signal fired for it: a record for
\* which none fired is retained.
Thm_C28_ScoreRangeAndPrune ==
    pc \in {"scored", "rescored"} =>
       /\ stage2_score >= -4
       /\ stage2_score <= 13
       /\ ~MeetsThreshold(stage2_score) =>
             FlagSet(score_flags) \cap NegativeSignals # {}
       /\ FlagSet(score_flags) \cap NegativeSignals = {} =>
             MeetsThreshold(stage2_score)

\* A record scored below the threshold: its only signals are the baseline
\* and penalties.
Witness_C28 ==
    /\ pc = "scored"
    /\ stage2_score < RELEVANCE_THRESHOLD
    /\ FlagSet(score_flags) \cap NegativeSignals # {}


-----------------------------------------------------------------------------
(* _analyze_fulltext, one row at a time *)

\* The frame _merge_deduplicate hands to _analyze_fulltext: up to MaxRecs
\* rows, labelled from 0.
AnalysisFrames ==
    UNION {{Normalized(ResetIndex(s)) :
               s \in [1..n -> {WithScore(r, RegistryFull) : r \in PipeRows}]} :
           n \in 0..MaxRecs}

\* The position in merged_df of the row iterrows yields next; the label -1
\* stands for "no row yielded yet".
NextPosition ==
    IF row.index = -1 THEN 1
    ELSE 1 + CHOOSE p \in DOMAIN merged_df : merged_df[p].index = row.index

InitAnalyze ==
    /\ pc = "analyze"
    /\ keywords \in Registries
    /\ merged_df \in AnalysisFrames
    /\ row = RawRow(-1, EMPTY, EMPTY, EMPTY, EMPTY, YearNone, None, EMPTY)
    /\ search_results = <<>>
    /\ all_citations = [s \in Sources |-> <<>>]
    /\ stage2_score = 0
    /\ score_flags = <<>>
    /\ prev_score = 0
    /\ prev_flags = <<>>
    /\ yaml_source = [kind |-> "mapping", value |-> keywords]
    /\ skip_fulltext = FALSE
    /\ classifier = DefaultClassifier
    /\ fulltext = EMPTY
    /\ classification = NoClassification
    /\ reports = {}
    /\ raw = [shape |-> "none"]
    /\ cache = EmptyCache
    /\ fetched = NotFetched

\* Lines 474-510, one iteration of "for idx, row in df.iterrows()": the row
\* is fetched and, when a text came back, classified; fulltext and
\* classification are the argument and the result of the last call of
\* classify_usage.
AnalyzeRow ==
    /\ pc = "analyze"
    /\ NextPosition \in DOMAIN merged_df
    /\ \E p \in {NextPosition} :
         \E o \in FetchOutcomes :
            /\ row' = merged_df[p]
            /\ merged_df' =
                  [merged_df EXCEPT ![p] = AnalyzedRow(merged_df[p], o, keywords)]
            /\ IF o.kind = "returns" /\ ~IsFalsy(o.fulltext)
               THEN /\ fulltext' = o.fulltext
                    /\ classification' =
                          UsageOf[keywords][o.fulltext].classification
               ELSE UNCHANGED <<fulltext, classification>>
    /\ UNCHANGED <<pc, keywords, search_results, all_citations, stage2_score,
                   score_flags, prev_score, prev_flags, yaml_source,
                   skip_fulltext, classifier, reports, raw, cache, fetched>>

\* The loop is exhausted (lines 512 on only log).
AnalysisDone ==
    /\ pc = "analyze"
    /\ NextPosition \notin DOMAIN merged_df
    /\ pc' = "analyzed"
    /\ UNCHANGED <<keywords, search_results, all_citations, merged_df, row,
                   stage2_score, score_flags, prev_score, prev_flags,
                   restVars>>

NextAnalyze == AnalyzeRow \/ AnalysisDone

SpecAnalyze == InitAnalyze /\ [][NextAnalyze]_vars

\* C29: after the full-text stage with spaCy disabled, a record with
\* uses_compendium = 1 has a non-empty full text, the method "regex" and
\* non-empty evidence; a record with an empty full text has
\* uses_compendium = 0 and empty evidence and snippet; and the classifier is
\* never called with an empty text.
Thm_C29_UsageOnlyFromText ==
    /\ pc = "analyzed" =>
          \A p \in DOMAIN merged_df :
             /\ merged_df[p].uses_compendium = 1 =>
                   /\ ~IsFalsy(merged_df[p].fulltext)
                   /\ merged_df[p].classification_method = "regex"
                   /\ merged_df[p].evidence # <<>>
             /\ IsFalsy(merged_df[p].fulltext) =>
                   /\ merged_df[p].uses_compendium = 0
                   /\ merged_df[p].evidence = <<>>
                   /\ merged_df[p].snippet = EMPTY
    /\ classification # NoClassification =>
          /\ ~IsFalsy(fulltext)
          /\ classification.method = "regex"

\* The stage has run over a frame in which one record's text matched a usage
\* pattern and another record had no text.
Witness_C29 ==
    /\ pc = "analyzed"
    /\ \E p, q \in DOMAIN merged_df :
          /\ merged_df[p].uses_compendium = 1
          /\ merged_df[q].fulltext = EMPTY
          /\ merged_df[q].classification_method = "none"

=============================================================================
